---- MODULE Spec2Model ----
(***************************************************************************)
(* Model of the query-intent resolution engine of the financial chatbot    *)
(* (chatbot/nlp_processor.py): the conversational classifier, the entity,  *)
(* fiscal-year, action and filter extractors, the confidence scorer and    *)
(* process_query.  Texts are TLA+ strings; the regular expressions and     *)
(* the substring tests of the code are computed character by character.    *)
(* Confidence values are integers in hundredths (0.80 is 80).              *)
(***************************************************************************)
EXTENDS Integers, Sequences, FiniteSets, TLC

VARIABLES
    mapping_file,     \* data_file_mapping.xlsx: whether it exists, its rows, where reading fails
    file_mappings,    \* sequence of [metric, file_name, statement_type]: the dict in insertion order
    row_file,         \* the lines of budget-chatbot-training-row.txt, question|entity|year
    hash_order,       \* the iteration order list(set(...)) produces in this run
    metric_keywords,  \* sequence of [entity, keywords]: the dict in insertion order
    query,            \* the text handed to the operation
    arg_entity,       \* entity argument of a direct get_confidence_score call
    arg_years,        \* years argument of a direct get_confidence_score call
    pc,               \* "ready" before the call, "done" after it
    ret,              \* what the call returned
    trace,            \* the extractors or pipeline stages the call ran, in order
    data_dir,         \* the data directory: whether it exists, and the sheets of its Excel files
    dataframes,       \* excel_mapper.dataframes: sequence of [name, columns], insertion order
    loaded,           \* excel_mapper.loaded
    intent,           \* the QueryIntent handed to generate_sql
    memo,             \* an earlier call kept for comparison: its arguments and its value
    threads           \* the calls in progress on concurrent request threads

vars == <<mapping_file, file_mappings, row_file, hash_order, metric_keywords, query, arg_entity, arg_years, pc, ret, trace,
          data_dir, dataframes, loaded, intent, memo, threads>>

(***************************************************************************)
(* Characters and strings                                                  *)
(***************************************************************************)
Digits == {"0", "1", "2", "3", "4", "5", "6", "7", "8", "9"}

LowerLetters == {"a", "b", "c", "d", "e", "f", "g", "h", "i", "j", "k", "l", "m",
                 "n", "o", "p", "q", "r", "s", "t", "u", "v", "w", "x", "y", "z"}

UpperToLower == [c \in {"A", "B", "C", "D", "E", "F", "G", "H", "I", "J", "K", "L", "M",
                        "N", "O", "P", "Q", "R", "S", "T", "U", "V", "W", "X", "Y", "Z"} |->
    CASE c = "A" -> "a" [] c = "B" -> "b" [] c = "C" -> "c" [] c = "D" -> "d"
      [] c = "E" -> "e" [] c = "F" -> "f" [] c = "G" -> "g" [] c = "H" -> "h"
      [] c = "I" -> "i" [] c = "J" -> "j" [] c = "K" -> "k" [] c = "L" -> "l"
      [] c = "M" -> "m" [] c = "N" -> "n" [] c = "O" -> "o" [] c = "P" -> "p"
      [] c = "Q" -> "q" [] c = "R" -> "r" [] c = "S" -> "s" [] c = "T" -> "t"
      [] c = "U" -> "u" [] c = "V" -> "v" [] c = "W" -> "w" [] c = "X" -> "x"
      [] c = "Y" -> "y" [] c = "Z" -> "z"]

\* the character of s at position i, "" outside the string
Char(s, i) == IF i >= 1 /\ i <= Len(s) THEN SubSeq(s, i, i) ELSE ""

IsDigit(c) == c \in Digits

\* \w of the re module
IsWordChar(c) == c \in Digits \/ c \in LowerLetters \/ c \in DOMAIN UpperToLower \/ c = "_"

\* \s of the re module, and the whitespace of str.split() and str.strip()
IsSpace(c) == c \in {" ", "\t", "\n"}

\* str.lower()
RECURSIVE Lower(_)
Lower(s) ==
    IF s = "" THEN ""
    ELSE LET c == SubSeq(s, 1, 1)
         IN  (IF c \in DOMAIN UpperToLower THEN UpperToLower[c] ELSE c) \o Lower(Tail(s))

\* str.strip()
RECURSIVE Strip(_)
Strip(s) ==
    IF s = "" THEN ""
    ELSE IF IsSpace(Char(s, 1)) THEN Strip(Tail(s))
    ELSE IF IsSpace(Char(s, Len(s))) THEN Strip(SubSeq(s, 1, Len(s) - 1))
    ELSE s

\* w occurs in s starting at position i
At(s, i, w) == i >= 1 /\ i + Len(w) - 1 <= Len(s) /\ SubSeq(s, i, i + Len(w) - 1) = w

\* the "in" operator of str: k is a substring of s
Contains(k, s) == \E i \in 1..(Len(s) - Len(k) + 1) : SubSeq(s, i, i + Len(k) - 1) = k

\* \b of the re module, between positions i-1 and i
WordBoundary(s, i) == IsWordChar(Char(s, i - 1)) # IsWordChar(Char(s, i))

\* re.search(r'\b(a1|a2|...)\b', s, re.IGNORECASE) for the alternatives alts
SearchWords(alts, s) ==
    LET t == Lower(s)
    IN  \E i \in 1..Len(t) : \E w \in alts :
            At(t, i, w) /\ WordBoundary(t, i) /\ WordBoundary(t, i + Len(w))

\* str.split(): the number of whitespace-separated words of s
RECURSIVE WordCount(_)
WordCount(s) ==
    IF s = "" THEN 0
    ELSE (IF ~IsSpace(Char(s, 1)) /\ (Len(s) = 1 \/ IsSpace(Char(s, 2))) THEN 1 ELSE 0)
         + WordCount(Tail(s))

\* int(s) for a string of digits
DigitValue(c) ==
    CASE c = "0" -> 0 [] c = "1" -> 1 [] c = "2" -> 2 [] c = "3" -> 3 [] c = "4" -> 4
      [] c = "5" -> 5 [] c = "6" -> 6 [] c = "7" -> 7 [] c = "8" -> 8 [] c = "9" -> 9

RECURSIVE ToInt(_)
ToInt(s) == IF s = "" THEN 0 ELSE 10 * ToInt(SubSeq(s, 1, Len(s) - 1)) + DigitValue(Char(s, Len(s)))

DigitChar(d) ==
    CASE d = 0 -> "0" [] d = 1 -> "1" [] d = 2 -> "2" [] d = 3 -> "3" [] d = 4 -> "4"
      [] d = 5 -> "5" [] d = 6 -> "6" [] d = 7 -> "7" [] d = 8 -> "8" [] d = 9 -> "9"

\* str(n) for n >= 0
RECURSIVE ToStr(_)
ToStr(n) == IF n < 10 THEN DigitChar(n) ELSE ToStr(n \div 10) \o DigitChar(n % 10)

\* s[-2:]
LastTwo(s) == IF Len(s) <= 2 THEN s ELSE SubSeq(s, Len(s) - 1, Len(s))

(***************************************************************************)
(* NLPProcessor.__init__: the fixed pattern tables                         *)
(***************************************************************************)
\* greeting_patterns, in the insertion order of the dict
greeting_patterns == <<
    [conv_type |-> "hello",
     words |-> {"hi", "hello", "hey", "good morning", "good afternoon", "good evening"}],
    [conv_type |-> "goodbye",
     words |-> {"bye", "goodbye", "see you", "thanks", "thank you", "exit", "quit"}],
    [conv_type |-> "help",
     words |-> {"help", "what can you do", "how does this work", "guide", "assist"}],
    [conv_type |-> "status",
     words |-> {"status", "health", "working", "available"}] >>

\* action_patterns, in the insertion order of the dict; the three get patterns
\* share the \b...\b shape and are one alternative set here
action_patterns == <<
    [action |-> "get", words |-> {"what", "show", "get", "tell", "find", "is", "are"}],
    [action |-> "compare", words |-> {"compare", "versus", "vs", "against", "difference"}],
    [action |-> "calculate", words |-> {"calculate", "compute", "sum", "total"}],
    [action |-> "list", words |-> {"list", "show all", "display"}] >>

supported_years == <<"2023-24", "2024-25", "2025-26", "2026-27", "2027-28">>

SupportedYearSet == {supported_years[i] : i \in DOMAIN supported_years}

None == "<None>"

(***************************************************************************)
(* _detect_conversation_type and _extract_action                           *)
(***************************************************************************)
\* the last entry of an ordered pattern table with a matching pattern, 0 if none
LastMatch(table, s) ==
    LET hits == {i \in DOMAIN table : SearchWords(table[i].words, s)}
    IN  IF hits = {} THEN 0 ELSE CHOOSE i \in hits : \A j \in hits : i >= j

\* the first entry of an ordered pattern table with a matching pattern, 0 if none
FirstMatch(table, s) ==
    LET hits == {i \in DOMAIN table : SearchWords(table[i].words, s)}
    IN  IF hits = {} THEN 0 ELSE CHOOSE i \in hits : \A j \in hits : i <= j

_detect_conversation_type(s) ==
    LET i == FirstMatch(greeting_patterns, s)
    IN  IF i = 0 THEN None ELSE greeting_patterns[i].conv_type

\* an extraction that tests the compare category before the get category
ExtractActionCompareFirst(s) ==
    IF SearchWords(action_patterns[2].words, s) THEN "compare"
    ELSE LET i == FirstMatch(action_patterns, s)
         IN  IF i = 0 THEN "get" ELSE action_patterns[i].action

_extract_action(s) ==
    LET i == FirstMatch(action_patterns, s)
    IN  IF i = 0 THEN "get" ELSE action_patterns[i].action

(***************************************************************************)
(* _extract_fiscal_year                                                    *)
(***************************************************************************)
\* the number of whitespace characters of s from position i on
RECURSIVE SpaceRun(_, _)
SpaceRun(s, i) == IF IsSpace(Char(s, i)) THEN 1 + SpaceRun(s, i + 1) ELSE 0

\* 20\d{2} at position i
YearAt(s, i) == At(s, i, "20") /\ IsDigit(Char(s, i + 2)) /\ IsDigit(Char(s, i + 3))

\* sep\d{2} at position i
SuffixAt(s, i, sep) == Char(s, i) = sep /\ IsDigit(Char(s, i + 1)) /\ IsDigit(Char(s, i + 2))

\* 20\d{2}(?:-\d{2})? at position i: the length matched, 0 if no match
YearOptSuffixLen(s, i) ==
    IF ~YearAt(s, i) THEN 0 ELSE IF SuffixAt(s, i + 4, "-") THEN 7 ELSE 4

\* word\s+year\s+20\d{2}(?:-\d{2})? at position i: the length matched, 0 if no match
LongFormLen(s, i, word) ==
    IF ~At(s, i, word) THEN 0
    ELSE LET g1 == SpaceRun(s, i + Len(word))
             j  == i + Len(word) + g1
         IN  IF g1 = 0 \/ ~At(s, j, "year") THEN 0
             ELSE LET g2 == SpaceRun(s, j + 4)
                      k  == j + 4 + g2
                  IN  IF g2 = 0 \/ YearOptSuffixLen(s, k) = 0 THEN 0
                      ELSE (k - i) + YearOptSuffixLen(s, k)

\* advanced_patterns[p] tried at position i of the lower-cased text (re.IGNORECASE):
\* the length of the match, 0 if it does not match there
MatchLen(p, s, i) ==
    CASE p = 1 -> IF YearAt(s, i) /\ SuffixAt(s, i + 4, "-") THEN 7 ELSE 0
      [] p = 2 -> IF YearAt(s, i) /\ SuffixAt(s, i + 4, "/") THEN 7 ELSE 0
      [] p = 3 -> IF ~At(s, i, "fy") THEN 0
                  ELSE LET j == i + 2 + SpaceRun(s, i + 2)
                       IN  IF YearOptSuffixLen(s, j) = 0 THEN 0
                           ELSE (j - i) + YearOptSuffixLen(s, j)
      [] p = 4 -> LongFormLen(s, i, "fiscal")
      [] p = 5 -> LongFormLen(s, i, "financial")
      [] p = 6 -> IF YearAt(s, i) /\ WordBoundary(s, i) /\ WordBoundary(s, i + 4)
                     /\ ~IsDigit(Char(s, i + 4))
                  THEN 4 ELSE 0

NumPatterns == 6

\* the scan of re.findall from position i on: the non-overlapping matches of
\* advanced_patterns[p] in s, left to right; low is s lower-cased
RECURSIVE FindFrom(_, _, _, _)
FindFrom(p, s, low, i) ==
    IF i > Len(s) THEN <<>>
    ELSE LET n == MatchLen(p, low, i)
         IN  IF n = 0 THEN FindFrom(p, s, low, i + 1)
             ELSE <<SubSeq(s, i, i + n - 1)>> \o FindFrom(p, s, low, i + n)

\* re.findall(advanced_patterns[p], s, re.IGNORECASE)
FindAll(p, s) == FindFrom(p, s, Lower(s), 1)

\* re.sub(r'[^\d\-/]', '', match)
RECURSIVE KeepYearChars(_)
KeepYearChars(s) ==
    IF s = "" THEN ""
    ELSE LET c == SubSeq(s, 1, 1)
         IN  (IF IsDigit(c) \/ c = "-" \/ c = "/" THEN c ELSE "") \o KeepYearChars(Tail(s))

\* str.replace(old, new) for a one-character old
RECURSIVE Replace(_, _, _)
Replace(s, old, new) ==
    IF s = "" THEN ""
    ELSE (IF SubSeq(s, 1, 1) = old THEN new ELSE SubSeq(s, 1, 1)) \o Replace(Tail(s), old, new)

\* a normalisation that expands a bare year with its own last two digits
NormalizeYearSameYear(match) ==
    LET cleaned  == KeepYearChars(match)
        dashed   == IF Contains("/", cleaned) THEN Replace(cleaned, "/", "-") ELSE cleaned
    IN  IF ~Contains("-", dashed) /\ Len(dashed) = 4
        THEN ToStr(ToInt(dashed)) \o "-" \o LastTwo(ToStr(ToInt(dashed)))
        ELSE dashed

\* the normalisation of one match, lines 413-423
NormalizeYear(match) ==
    LET cleaned  == KeepYearChars(match)
        dashed   == IF Contains("/", cleaned) THEN Replace(cleaned, "/", "-") ELSE cleaned
    IN  IF ~Contains("-", dashed) /\ Len(dashed) = 4
        THEN ToStr(ToInt(dashed)) \o "-" \o LastTwo(ToStr(ToInt(dashed) + 1))
        ELSE dashed

\* every match of every pattern, normalised (the values tested on line 426)
NormalizedMatches(s) ==
    UNION {LET matches == FindAll(p, s)
           IN  {NormalizeYear(matches[k]) : k \in DOMAIN matches} : p \in 1..NumPatterns}

\* the extraction without the test of line 426
ExtractFiscalYearUnfiltered(s) == NormalizedMatches(s)

\* the set of years the call returns; the order of list(set(years)) is the caller's
_extract_fiscal_year(s) == {y \in NormalizedMatches(s) : y \in SupportedYearSet}

(***************************************************************************)
(* Loading the knowledge base                                              *)
(***************************************************************************)
\* str.split(sep) for a one-character sep
RECURSIVE SplitFrom(_, _, _)
SplitFrom(s, sep, cur) ==
    IF s = "" THEN <<cur>>
    ELSE IF SubSeq(s, 1, 1) = sep THEN <<cur>> \o SplitFrom(Tail(s), sep, "")
    ELSE SplitFrom(Tail(s), sep, cur \o SubSeq(s, 1, 1))

Split(s, sep) == SplitFrom(s, sep, "")

\* re.findall(r'\b\w+\b', s): the maximal runs of word characters
RECURSIVE WordRuns(_, _)
WordRuns(s, cur) ==
    IF s = "" THEN (IF cur = "" THEN <<>> ELSE <<cur>>)
    ELSE IF IsWordChar(SubSeq(s, 1, 1)) THEN WordRuns(Tail(s), cur \o SubSeq(s, 1, 1))
    ELSE (IF cur = "" THEN <<>> ELSE <<cur>>) \o WordRuns(Tail(s), "")

stop_words == {"the", "is", "are", "for", "of", "in", "to", "and", "or", "what", "show", "me"}

MinKeywordLen == 2

_extract_keywords(text) ==
    SelectSeq(WordRuns(Lower(text), ""), LAMBDA w : w \notin stop_words /\ Len(w) > MinKeywordLen)

\* the index of the entry of the ordered dict d with key e, 0 if there is none
IndexOf(d, e) ==
    IF \E i \in DOMAIN d : d[i].entity = e
    THEN CHOOSE i \in DOMAIN d : d[i].entity = e
    ELSE 0

\* _load_row_mappings: entity -> keywords of its training questions, as an ordered
\* dict (the question and year of a mapping are not read by the operations modelled)
RECURSIVE _load_row_mappings(_, _)
_load_row_mappings(lines, acc) ==
    IF lines = <<>> THEN acc
    ELSE LET line  == Strip(Head(lines))
             parts == Split(line, "|")
         IN  IF ~Contains("|", line) \/ Len(parts) < 3
             THEN _load_row_mappings(Tail(lines), acc)
             ELSE LET entity == Lower(parts[2])
                      kws    == _extract_keywords(Lower(parts[1]))
                      i      == IndexOf(acc, entity)
                  IN  _load_row_mappings(Tail(lines),
                        IF i = 0
                        THEN Append(acc, [entity |-> entity, keywords |-> kws])
                        ELSE [acc EXCEPT ![i].keywords = @ \o kws])

base_terms == <<
    [entity |-> "revenue", keywords |-> <<"revenue", "income", "earnings", "receipts",
        "own-source revenue", "sales", "turnover">>],
    [entity |-> "expenses", keywords |-> <<"expenses", "costs", "expenditure", "spending",
        "outgoings">>],
    [entity |-> "employee_benefits", keywords |-> <<"employee benefits", "staff benefits",
        "personnel costs", "employee benefit">>],
    [entity |-> "operating_expenses", keywords |-> <<"operating expenses", "opex",
        "operational costs">>],
    [entity |-> "assets", keywords |-> <<"assets", "holdings", "resources", "total assets",
        "financial assets", "non-financial assets">>],
    [entity |-> "current_assets", keywords |-> <<"current assets", "short term assets">>],
    [entity |-> "liabilities", keywords |-> <<"liabilities", "debts", "obligations",
        "payables", "provisions", "total liabilities">>],
    [entity |-> "equity", keywords |-> <<"equity", "net worth", "shareholders equity",
        "net assets", "contributed equity">>],
    [entity |-> "cash_flow", keywords |-> <<"cash flow", "cashflow", "cash position",
        "net cash", "operating activities">>],
    [entity |-> "cash_and_cash_equivalents", keywords |-> <<"cash and cash equivalents",
        "cash & cash equivalents", "cash equivalents", "cash at the end of",
        "cash at end of">>],
    [entity |-> "cash", keywords |-> <<"cash", "liquid assets", "available cash">>],
    [entity |-> "property", keywords |-> <<"property", "plant", "equipment", "land",
        "buildings", "ppe">>],
    [entity |-> "net_income", keywords |-> <<"net income", "profit", "net profit",
        "bottom line", "surplus", "deficit", "comprehensive income">>],
    [entity |-> "investing_activities", keywords |-> <<"investing activities",
        "investment activities">>],
    [entity |-> "financing_activities", keywords |-> <<"financing activities",
        "financing cash flow">>] >>

\* the elements of seq without repetition, first occurrences kept
RECURSIVE Dedupe(_)
Dedupe(seq) ==
    IF seq = <<>> THEN <<>>
    ELSE LET init == Dedupe(SubSeq(seq, 1, Len(seq) - 1))
             x    == seq[Len(seq)]
         IN  IF \E i \in DOMAIN init : init[i] = x THEN init ELSE Append(init, x)

Reverse(seq) == [i \in 1..Len(seq) |-> seq[Len(seq) + 1 - i]]

\* the iteration orders of a set that a run may see
HashOrders == {"fwd", "rev"}

\* seq with its first element moved to the end
Rotate(seq) == IF seq = <<>> THEN <<>> ELSE Append(Tail(seq), Head(seq))

\* every order of a set of at most three elements
ColumnOrders == {"fwd", "rev", "rot", "rotrev", "tor", "torrev"}

\* list(set(seq)): the distinct elements, in the order this run's hashing gives
ListOfSet(seq, order) ==
    LET d == Dedupe(seq)
    IN  CASE order = "fwd"    -> d
          [] order = "rev"    -> Reverse(d)
          [] order = "rot"    -> Rotate(d)
          [] order = "rotrev" -> Reverse(Rotate(d))
          [] order = "tor"    -> Rotate(Rotate(d))
          [] order = "torrev" -> Reverse(Rotate(Rotate(d)))

\* lines 206-211: the row mappings merged into the copy of base_terms
RECURSIVE MergeRows(_, _)
MergeRows(kb, rows) ==
    IF rows = <<>> THEN kb
    ELSE LET r == Head(rows)
             i == IndexOf(kb, r.entity)
         IN  MergeRows(IF i = 0 THEN Append(kb, r)
                       ELSE [kb EXCEPT ![i].keywords = @ \o r.keywords],
                       Tail(rows))

_build_metric_keywords(lines, order) ==
    LET merged == MergeRows(base_terms, _load_row_mappings(lines, <<>>))
    IN  [i \in 1..Len(merged) |->
            [entity |-> merged[i].entity,
             keywords |-> ListOfSet(merged[i].keywords, order)]]

(***************************************************************************)
(* _load_file_mappings                                                     *)
(***************************************************************************)
FileMap(metric, file_name, statement_type) ==
    [metric |-> metric, file_name |-> file_name, statement_type |-> statement_type]

\* lines 226-236
_create_default_file_mappings ==
    << FileMap("revenue", "Income Statement", "income_statement"),
       FileMap("expenses", "Income Statement", "income_statement"),
       FileMap("employee_benefits", "Income Statement", "income_statement"),
       FileMap("net_income", "Income Statement", "income_statement"),
       FileMap("assets", "Balance Sheet", "balance_sheet"),
       FileMap("liabilities", "Balance Sheet", "balance_sheet"),
       FileMap("equity", "Balance Sheet", "balance_sheet"),
       FileMap("cash_flow", "Cash Flow", "cash_flow"),
       FileMap("cash", "Balance Sheet", "balance_sheet") >>

\* self.file_mappings[metric] = {...}: a new key goes last, a known key keeps its place
PutFileMap(d, m) ==
    IF \E i \in DOMAIN d : d[i].metric = m.metric
    THEN [i \in DOMAIN d |-> IF d[i].metric = m.metric THEN m ELSE d[i]]
    ELSE Append(d, m)

\* lines 114-123 for the first n rows: the cells are what str() gives, '' for a
\* column the sheet does not have
RECURSIVE LoadedRows(_, _, _)
LoadedRows(rows, n, acc) ==
    IF n = 0 \/ rows = <<>> THEN acc
    ELSE LET row == Head(rows)
             metric == Lower(row.metric)
         IN  LoadedRows(Tail(rows), n - 1,
                        IF metric # "" /\ row.file_name # ""
                        THEN PutFileMap(acc, FileMap(metric, row.file_name,
                                                     Lower(row.statement_type)))
                        ELSE acc)

\* no data_file_mapping.xlsx in the data directory
NoMappingFile == [exists |-> FALSE]

\* a data_file_mapping.xlsx with the rows, reading which raises before row
\* fails_at (at read_excel for fails_at = 1, never for fails_at > Len(rows))
MappingFile(rows, fails_at) == [exists |-> TRUE, rows |-> rows, fails_at |-> fails_at]

Failing(f) == f.exists /\ f.fails_at <= Len(f.rows)

\* a loader that keeps the rows read before the failure and adds the defaults
_load_file_mappings_keeping(f) ==
    IF ~f.exists THEN _create_default_file_mappings
    ELSE IF Failing(f)
    THEN LoadedRows(f.rows, f.fails_at - 1, <<>>) \o _create_default_file_mappings
    ELSE LoadedRows(f.rows, Len(f.rows), <<>>)

\* lines 108-130, from self.file_mappings = {} (line 78)
_load_file_mappings(f) ==
    IF ~f.exists THEN _create_default_file_mappings
    ELSE IF Failing(f) THEN _create_default_file_mappings
    ELSE LoadedRows(f.rows, Len(f.rows), <<>>)

(***************************************************************************)
(* _extract_entity                                                         *)
(***************************************************************************)
Max(S) == CHOOSE x \in S : \A y \in S : y <= x

\* a sort key that reads only the keyword that happens to come first in the list
SpecificityOfFirst(keywords) == WordCount(keywords[1])

\* the sort key of line 358; max() of an empty sequence raises ValueError
Specificity(keywords) == Max({WordCount(keywords[i]) : i \in DOMAIN keywords})

\* the positions of keys, by descending key; positions of equal key stay in
\* ascending order (sorted(..., reverse=True) is stable)
RECURSIVE SortedFrom(_, _)
SortedFrom(keys, key) ==
    IF key < 0 THEN <<>>
    ELSE SelectSeq([i \in DOMAIN keys |-> i], LAMBDA i : keys[i] = key)
         \o SortedFrom(keys, key - 1)

\* sorted(self.metric_keywords.items(), key=Specificity, reverse=True)
sorted_entities(kb) ==
    LET keys  == [i \in DOMAIN kb |-> Specificity(kb[i].keywords)]
        order == SortedFrom(keys, Max({0} \cup {keys[i] : i \in DOMAIN keys}))
    IN  [n \in DOMAIN order |-> kb[order[n]]]

\* lines 364-372 for one entity: matches and score
Matched(keywords, q) == {i \in DOMAIN keywords : Contains(keywords[i], q)}

RECURSIVE SumSquares(_, _)
SumSquares(keywords, idx) ==
    IF idx = {} THEN 0
    ELSE LET i == CHOOSE j \in idx : TRUE
         IN  WordCount(keywords[i]) * WordCount(keywords[i]) + SumSquares(keywords, idx \ {i})

\* match_score = (matches * score) / len(keywords), kept as the fraction num/den
MatchScore(keywords, q) ==
    LET m == Matched(keywords, q)
    IN  [num |-> Cardinality(m) * SumSquares(keywords, m), den |-> Len(keywords)]

\* match_score > highest_score (line 378), on fractions with positive denominators
Beats(a, b) == a.num * b.den > b.num * a.den

\* the loop of lines 363-380 over the sorted entries: best_match and highest_score
RECURSIVE BestMatch(_, _, _)
BestMatch(entries, q, best) ==
    IF entries = <<>> THEN best
    ELSE LET e  == Head(entries)
             ms == MatchScore(e.keywords, q)
         IN  BestMatch(Tail(entries), q,
                IF ms.num > 0 /\ Beats(ms, best.score)
                THEN [entity |-> e.entity, score |-> ms]
                ELSE best)

AnyIn(words, q) == \E w \in words : Contains(w, q)

\* lines 385-394
EntityFallback(q) ==
    IF AnyIn({"total", "sum", "amount"}, q)
    THEN IF AnyIn({"spend", "cost", "expense"}, q) THEN "expenses"
         ELSE IF AnyIn({"earn", "income", "revenue"}, q) THEN "revenue"
         ELSE IF AnyIn({"asset", "holding"}, q) THEN "assets"
         ELSE "revenue"
    ELSE "revenue"

\* the outcome of _extract_entity: the entity returned, or the exception raised
_extract_entity(kb, q) ==
    IF \E i \in DOMAIN kb : kb[i].keywords = <<>>
    THEN [raised |-> TRUE, entity |-> None]
    ELSE LET best == BestMatch(sorted_entities(kb), q,
                               [entity |-> None, score |-> [num |-> 0, den |-> 1]])
         IN  IF best.entity # None /\ best.entity # ""
             THEN [raised |-> FALSE, entity |-> best.entity]
             ELSE [raised |-> FALSE, entity |-> EntityFallback(q)]

(***************************************************************************)
(* get_confidence_score, in hundredths                                     *)
(***************************************************************************)
BaseConfidence == 80
KeywordBoost == 5
KeywordBoostCap == 15
YearBoost == 5
ActionBoost == 5
IndicatorBoost == 5
FormalBoost == 2
ConfidenceFloor == 90
ConfidenceCeiling == 100

Min2(a, b) == IF a < b THEN a ELSE b
Max2(a, b) == IF a > b THEN a ELSE b

financial_indicators == {"revenue", "expenses", "assets", "liabilities", "cash", "profit", "budget"}
formal_terms == {"statement", "report", "financial", "fiscal", "budget"}

\* an entity boost without the cap of 0.15
EntityBoostUncapped(kb, entity, q) ==
    LET i == IndexOf(kb, entity)
    IN  IF i = 0 THEN 0
        ELSE Cardinality(Matched(kb[i].keywords, Lower(q))) * KeywordBoost

\* lines 436-440
EntityBoost(kb, entity, q) ==
    LET i == IndexOf(kb, entity)
    IN  IF i = 0 THEN 0
        ELSE Min2(KeywordBoostCap,
                  Cardinality(Matched(kb[i].keywords, Lower(q))) * KeywordBoost)

\* lines 443-446
YearsBoost(years) == Cardinality({i \in DOMAIN years : years[i] \in SupportedYearSet}) * YearBoost

\* lines 449-461
WordingBoost(q) ==
    LET lowered == Lower(q)
    IN  (IF _extract_action(q) \in {"get", "show", "compare"} THEN ActionBoost ELSE 0)
        + (IF AnyIn(financial_indicators, lowered) THEN IndicatorBoost ELSE 0)
        + (IF AnyIn(formal_terms, lowered) THEN FormalBoost ELSE 0)

\* lines 464-465
FloorAndClamp(confidence) == Min2(Max2(confidence, ConfidenceFloor), ConfidenceCeiling)

get_confidence_score(kb, entity, years, q) ==
    FloorAndClamp(BaseConfidence + EntityBoost(kb, entity, q) + YearsBoost(years) + WordingBoost(q))

(***************************************************************************)
(* _extract_filters                                                        *)
(***************************************************************************)
agencies == <<"dss", "ndia", "ndis", "saus", "afis", "dfsv">>

\* str.upper()
RECURSIVE Upper(_)
Upper(s) ==
    IF s = "" THEN ""
    ELSE LET c == SubSeq(s, 1, 1)
         IN  (IF c \in LowerLetters
              THEN CHOOSE u \in DOMAIN UpperToLower : UpperToLower[u] = c
              ELSE c) \o Upper(Tail(s))

\* the loop of lines 647-649: each agency found overwrites filters['agency']
RECURSIVE AgencyFilter(_, _, _)
AgencyFilter(q, i, filters) ==
    IF i > Len(agencies) THEN filters
    ELSE AgencyFilter(q, i + 1,
            IF Contains(agencies[i], q)
            THEN [k \in DOMAIN filters \cup {"agency"} |->
                    IF k = "agency" THEN Upper(agencies[i]) ELSE filters[k]]
            ELSE filters)

_extract_filters(q) ==
    LET f == AgencyFilter(q, 1, <<>>)
    IN  IF Contains("social services", q)
        THEN [k \in DOMAIN f \cup {"department"} |->
                IF k = "department" THEN "Social Services" ELSE f[k]]
        ELSE f

(***************************************************************************)
(* process_query                                                           *)
(***************************************************************************)
\* the sequences that enumerate the set S once each: what list(set(...)) may return
Orderings(S) == {f \in [1..Cardinality(S) -> S] : \A i, j \in DOMAIN f : i # j => f[i] # f[j]}

QueryIntent(action, entity, years, filters, confidence) ==
    [action |-> action, entity |-> entity, years |-> years, filters |-> filters,
     confidence |-> confidence]

FullConfidence == 100

\* a conversational intent that is scored like a financial one
ConversationIntentScored(conv, user_query) ==
    QueryIntent("conversation", conv, <<>>,
                [conversation_type |-> conv, original_query |-> user_query],
                ConfidenceFloor)

\* lines 259-265
ConversationIntent(conv, user_query) ==
    QueryIntent("conversation", conv, <<>>,
                [conversation_type |-> conv, original_query |-> user_query],
                FullConfidence)

\* lines 284-292: the intent returned when an extractor raised
FaultIntent == QueryIntent("get", "unknown", <<>>, <<>>, 0)

\* lines 267-282, for the outcome e of _extract_entity and the order ys in which
\* list(set(years)) came out
FinancialIntent(kb, q, ys, e) ==
    IF e.raised THEN FaultIntent
    ELSE QueryIntent(_extract_action(q), e.entity, ys, _extract_filters(q),
                     get_confidence_score(kb, e.entity, ys, q))

\* the extractors process_query runs, in call order
ExtractorsRun(conv, e) ==
    IF conv # None THEN <<"_detect_conversation_type">>
    ELSE IF e.raised
    THEN <<"_detect_conversation_type", "_extract_fiscal_year", "_extract_entity">>
    ELSE <<"_detect_conversation_type", "_extract_fiscal_year", "_extract_entity",
           "_extract_action", "_extract_filters", "get_confidence_score">>

(***************************************************************************)
(* ExcelMapper: the schema catalog                                         *)
(***************************************************************************)
\* s[:n]
Take(s, n) == SubSeq(s, 1, Min2(n, Len(s)))

\* sep.join(seq)
RECURSIVE Join(_, _)
Join(seq, sep) ==
    IF seq = <<>> THEN ""
    ELSE IF Len(seq) = 1 THEN seq[1]
    ELSE seq[1] \o sep \o Join(Tail(seq), sep)

\* ' '.join(s.split()): whitespace runs become one space, the ends are stripped
RECURSIVE SingleSpaced(_)
SingleSpaced(s) ==
    LET t == Strip(s)
    IN  IF t = "" THEN ""
        ELSE IF IsSpace(Char(t, 1))
        THEN SingleSpaced(Tail(t))
        ELSE IF IsSpace(Char(t, 2))
        THEN Char(t, 1) \o " " \o SingleSpaced(Tail(t))
        ELSE Char(t, 1) \o SingleSpaced(Tail(t))

\* the chain of str.replace calls of lines 70-82 on one character
CleanChar(c) ==
    IF c \in {" ", "-", "\n", ",", "(", ")", ":", ".", "/", "\\"} THEN "_"
    ELSE IF c = "$" THEN "Dollar"
    ELSE IF c \in {"'", "\""} THEN ""
    ELSE c

RECURSIVE CleanChars(_)
CleanChars(s) == IF s = "" THEN "" ELSE CleanChar(Char(s, 1)) \o CleanChars(Tail(s))

\* re.sub(r'[^a-zA-Z0-9_]', '_', s)
RECURSIVE NonWordToUnderscore(_)
NonWordToUnderscore(s) ==
    IF s = "" THEN ""
    ELSE (IF IsWordChar(Char(s, 1)) THEN Char(s, 1) ELSE "_") \o NonWordToUnderscore(Tail(s))

\* re.sub(r'_+', '_', s)
RECURSIVE CollapseUnderscores(_)
CollapseUnderscores(s) ==
    IF s = "" THEN ""
    ELSE IF Char(s, 1) = "_" /\ Char(s, 2) = "_" THEN CollapseUnderscores(Tail(s))
    ELSE Char(s, 1) \o CollapseUnderscores(Tail(s))

\* s.strip('_')
RECURSIVE StripUnderscores(_)
StripUnderscores(s) ==
    IF s = "" THEN ""
    ELSE IF Char(s, 1) = "_" THEN StripUnderscores(Tail(s))
    ELSE IF Char(s, Len(s)) = "_" THEN StripUnderscores(SubSeq(s, 1, Len(s) - 1))
    ELSE s

\* lines 66-87: a column header made a safe identifier
CleanColumn(col) == StripUnderscores(CollapseUnderscores(CleanChars(SingleSpaced(col))))

\* os.path.splitext(filename)[0] for a file name ending in .xlsx or .xls
BaseName(filename) ==
    IF Len(filename) > 5 /\ SubSeq(filename, Len(filename) - 4, Len(filename)) = ".xlsx"
    THEN SubSeq(filename, 1, Len(filename) - 5)
    ELSE IF Len(filename) > 4 /\ SubSeq(filename, Len(filename) - 3, Len(filename)) = ".xls"
    THEN SubSeq(filename, 1, Len(filename) - 4)
    ELSE filename

_create_table_name(filename, sheet_name) ==
    StripUnderscores(CollapseUnderscores(
        NonWordToUnderscore(BaseName(filename) \o "_" \o sheet_name)))

\* self.dataframes[name] = df: a new key goes last, a known key keeps its place
PutTable(dfs, name, columns) ==
    IF \E i \in DOMAIN dfs : dfs[i].name = name
    THEN [i \in DOMAIN dfs |-> IF dfs[i].name = name
                               THEN [name |-> name, columns |-> columns] ELSE dfs[i]]
    ELSE Append(dfs, [name |-> name, columns |-> columns])

\* lines 51-102: the sheets in the order os.walk and sheet_names give them
RECURSIVE LoadSheets(_, _)
LoadSheets(sheets, dfs) ==
    IF sheets = <<>> THEN dfs
    ELSE LET sh == Head(sheets)
         IN  LoadSheets(Tail(sheets),
                        PutTable(dfs, _create_table_name(sh.file, sh.sheet),
                                 [i \in DOMAIN sh.columns |-> CleanColumn(sh.columns[i])]))

\* a data directory that does not exist, and one holding the given sheets
NoDirectory == [exists |-> FALSE, sheets |-> <<>>]
Directory(sheets) == [exists |-> TRUE, sheets |-> sheets]

\* load_excel_files(): the mapper after the call, from its dataframes dfs;
\* without the directory the call returns on line 33 and loads nothing
load_excel_files(dir, dfs, isloaded) ==
    IF ~dir.exists THEN [dataframes |-> dfs, loaded |-> isloaded]
    ELSE [dataframes |-> LoadSheets(dir.sheets, dfs), loaded |-> TRUE]

\* the test "if not self.loaded: self.load_excel_files()" of lines 129 and 179
EnsureLoaded(dir, dfs, isloaded) ==
    IF isloaded THEN [dataframes |-> dfs, loaded |-> isloaded]
    ELSE load_excel_files(dir, dfs, isloaded)

\* get_available_tables() once loading was attempted
TableNames(dfs) == [i \in DOMAIN dfs |-> dfs[i].name]

\* get_table_info(table)['columns']
ColumnsOf(dfs, table) == dfs[CHOOSE i \in DOMAIN dfs : dfs[i].name = table].columns

(***************************************************************************)
(* SQLGenerator: table and column discovery                                *)
(***************************************************************************)
table_mappings ==
    [revenue |-> "income_statement", expenses |-> "income_statement",
     operating_expenses |-> "income_statement", net_income |-> "income_statement",
     assets |-> "balance_sheet", current_assets |-> "balance_sheet",
     liabilities |-> "balance_sheet", equity |-> "balance_sheet",
     cash_flow |-> "cashflow_statement"]

\* the first element of seq that satisfies Test, None when there is none
FirstWhere(seq, Test(_)) ==
    IF \E i \in DOMAIN seq : Test(seq[i])
    THEN seq[CHOOSE i \in DOMAIN seq : Test(seq[i]) /\ \A j \in 1..(i - 1) : ~Test(seq[j])]
    ELSE None

\* lines 728-732
DirectTable(entity, tables) ==
    IF entity \in DOMAIN table_mappings
    THEN FirstWhere(tables, LAMBDA t : Contains(Lower(table_mappings[entity]), Lower(t)))
    ELSE None

\* lines 735-745: the tests that return inside the loop
FuzzyTable(entity, tables) ==
    FirstWhere(tables, LAMBDA t :
        \/ Contains(Lower(entity), Lower(t))
        \/ Contains("income", Lower(t)) /\ entity \in {"revenue", "expenses", "net_income"}
        \/ Contains("balance", Lower(t))
           /\ entity \in {"assets", "liabilities", "equity", "cash",
                          "cash_and_cash_equivalents"})

\* lines 748-755
CashFlowTable(tables) ==
    LET marked == FirstWhere(tables, LAMBDA t : Contains("cash", Lower(t))
                                                /\ Contains("dfsv", Lower(t)))
    IN  IF marked # None THEN marked
        ELSE FirstWhere(tables, LAMBDA t : Contains("cash", Lower(t)))

\* lines 725-758
_find_best_table(entity, tables) ==
    LET direct == DirectTable(entity, tables)
        fuzzy  == FuzzyTable(entity, tables)
        cash   == IF entity = "cash_flow" THEN CashFlowTable(tables) ELSE None
    IN  IF direct # None THEN direct
        ELSE IF fuzzy # None THEN fuzzy
        ELSE IF cash # None THEN cash
        ELSE IF tables # <<>> THEN tables[1] ELSE None

\* lines 904-906
_find_entity_columns(columns) ==
    SelectSeq(columns, LAMBDA c : Lower(c) \in {"item", "description", "account", "line_item"})

\* lines 779-783 and 867-871: the descriptive column, None when there is none
ItemColumn(columns) ==
    FirstWhere(columns, LAMBDA c :
        \/ Lower(c) \in {"item", "unnamed_0", "description", "account"}
        \/ Contains("unnamed", Lower(c)))

\* lines 919-926
year_variants(year) ==
    {Replace(year, "-", "_"), Replace(year, "-", ""), Take(year, 4), LastTwo(year),
     "fy_" \o Take(year, 4), "budget_" \o Take(year, 4)}

\* lines 914-931: col is appended once for each requested year it matches
RECURSIVE YearMatches(_, _)
YearMatches(col, years) ==
    IF years = <<>> THEN <<>>
    ELSE (IF \E v \in year_variants(Head(years)) : Contains(v, Lower(col))
          THEN <<col>> ELSE <<>>) \o YearMatches(col, Tail(years))

RECURSIVE MatchedYearColumns(_, _)
MatchedYearColumns(years, columns) ==
    IF columns = <<>> THEN <<>>
    ELSE YearMatches(Head(columns), years) \o MatchedYearColumns(years, Tail(columns))

financial_column_words == {"budget", "estimate", "actual", "dollar", "000"}

\* a fallback that takes every column with a digit in its name
FallbackYearColumnsAnyDigit(columns) ==
    SelectSeq(columns, LAMBDA c : \E i \in 1..Len(c) : IsDigit(Char(c, i)))

\* lines 934-939
FallbackYearColumns(columns) ==
    SelectSeq(columns, LAMBDA c :
        /\ \E i \in 1..Len(c) : IsDigit(Char(c, i))
        /\ \E k \in financial_column_words : Contains(k, Lower(c)))

\* year columns whose order changes once a query has been synthesized
_find_year_columns_rehashed(years, columns, order) ==
    LET year_cols == MatchedYearColumns(years, columns)
    IN  ListOfSet(IF year_cols = <<>> THEN FallbackYearColumns(columns) ELSE year_cols,
                  IF ret.op # "generate_sql" THEN order
                  ELSE IF order = "fwd" THEN "rev" ELSE "fwd")

\* lines 910-941: the matched columns, else the fallback, through list(set(...))
_find_year_columns(years, columns, order) ==
    LET year_cols == MatchedYearColumns(years, columns)
    IN  ListOfSet(IF year_cols = <<>> THEN FallbackYearColumns(columns) ELSE year_cols,
                  order)

DefaultColumnYear == 2024

\* re.search(r'20(\d{2})', column_name): the leftmost match
_extract_year_from_column(col) ==
    LET hits == {i \in 1..Len(col) : At(col, i, "20") /\ IsDigit(Char(col, i + 2))
                                     /\ IsDigit(Char(col, i + 3))}
    IN  IF hits = {} THEN DefaultColumnYear
        ELSE LET i == CHOOSE h \in hits : \A g \in hits : h <= g
             IN  ToInt(SubSeq(col, i, i + 3))

\* the year columns left in the order they were found in
UnsortedByYear(seq) == seq

\* sorted(seq, key=self._extract_year_from_column): ascending, columns of equal
\* year keep their order
RECURSIVE SortedByYear(_)
SortedByYear(seq) ==
    IF seq = <<>> THEN <<>>
    ELSE LET init == SortedByYear(SubSeq(seq, 1, Len(seq) - 1))
             x    == seq[Len(seq)]
             n    == Cardinality({i \in DOMAIN init :
                         _extract_year_from_column(init[i]) <= _extract_year_from_column(x)})
         IN  SubSeq(init, 1, n) \o <<x>> \o SubSeq(init, n + 1, Len(init))

(***************************************************************************)
(* SQLGenerator: the query text                                            *)
(***************************************************************************)
\* stands for the back quote of the SQL text, which a string of this language
\* cannot hold
BackQuote == "~"

special_chars == {"-", " ", ":", ".", "$"}

\* col[0].isdigit() or any(char in col for char in ['-', ' ', ':', '.', '$']);
\* col[0] raises IndexError for an empty name
NeedsQuote(col) ==
    IsDigit(Char(col, 1)) \/ \E i \in 1..Len(col) : Char(col, i) \in special_chars

QuoteColumn(col) == IF NeedsQuote(col) THEN BackQuote \o col \o BackQuote ELSE col

entity_patterns ==
    [revenue |-> <<"revenue", "income", "earnings">>,
     expenses |-> <<"expenses", "costs", "expenditure">>,
     operating_expenses |-> <<"operating expenses", "operational costs">>,
     assets |-> <<"assets", "total assets">>,
     current_assets |-> <<"current assets">>,
     liabilities |-> <<"liabilities", "total liabilities">>,
     equity |-> <<"equity", "net worth">>,
     cash_flow |-> <<"cash flow", "net cash">>,
     net_income |-> <<"net income", "profit", "net result">>,
     employee_benefits |-> <<"employee benefits", "employee benefit", "staff benefits">>,
     cash_and_cash_equivalents |-> <<"cash and cash equivalents", "cash equivalents",
                                     "cash & cash equivalents">>,
     cash |-> <<"cash", "available cash", "liquid assets">>]

\* patterns kept in one dict shared by all calls: what a call appended stays
_get_entity_patterns_shared(entity) ==
    LET found   == IF entity \in DOMAIN entity_patterns THEN entity_patterns[entity]
                   ELSE <<Replace(entity, "_", " ")>>
        earlier == {i \in DOMAIN threads : /\ threads[i].pc = "done"
                                           /\ threads[i].op = "generate_sql"
                                           /\ threads[i].intent.entity = entity}
        once    == Append(found, Replace(entity, "_", " "))
    IN  IF ~Contains("_", entity) THEN found
        ELSE IF earlier = {} THEN once
        ELSE Append(once, Replace(entity, "_", " "))

\* lines 953-977; the dict of patterns is built anew by every call
_get_entity_patterns(entity) ==
    LET found == IF entity \in DOMAIN entity_patterns THEN entity_patterns[entity]
                 ELSE <<Replace(entity, "_", " ")>>
    IN  IF Contains("_", entity) THEN Append(found, Replace(entity, "_", " ")) ELSE found

\* lines 822-825 and 889-892
PatternConditions(quoted_item, patterns) ==
    Join([i \in DOMAIN patterns |->
            "LOWER(" \o quoted_item \o ") LIKE '%" \o Lower(patterns[i]) \o "%'"], " OR ")

\* lines 829-831
FilterConditions(filters, columns) ==
    IF "agency" \in DOMAIN filters /\ \E i \in DOMAIN columns : columns[i] = "Agency"
    THEN <<"UPPER(Agency) = '" \o Upper(filters["agency"]) \o "'">>
    ELSE <<>>

RowLimit == 10

\* the outcome of a synthesis step: the text, or the exception it raised
Sql(text) == [raised |-> FALSE, sql |-> text]
Raised == [raised |-> TRUE, sql |-> ""]

\* lines 760-842 for the columns of the table
_generate_basic_sql(it, table, columns, order) ==
    LET item_column  == ItemColumn(columns)
        year_columns == _find_year_columns(it.years, columns, order)
        named        == (IF item_column # None THEN <<item_column>>
                         ELSE _find_entity_columns(columns)) \o SortedByYear(year_columns)
        select_cols  == IF named = <<>> THEN <<"*">> ELSE named
        quoted_cols  == [i \in DOMAIN select_cols |->
                            IF select_cols[i] = "*" THEN "*" ELSE QuoteColumn(select_cols[i])]
        item_filter  == IF item_column # None /\ it.entity # "unknown"
                        THEN <<"(" \o PatternConditions(QuoteColumn(item_column),
                                                       _get_entity_patterns(it.entity))
                               \o ")">>
                        ELSE <<>>
        where_conditions == item_filter \o FilterConditions(it.filters, columns)
        table_name   == IF Contains("-", table) \/ Contains(" ", table)
                        THEN BackQuote \o table \o BackQuote ELSE table
    IN  IF \E i \in DOMAIN select_cols : select_cols[i] = ""
        THEN Raised
        ELSE Sql("SELECT " \o Join(quoted_cols, ", ") \o " FROM " \o table_name
                 \o (IF where_conditions = <<>> THEN ""
                     ELSE " WHERE " \o Join(where_conditions, " AND "))
                 \o " LIMIT " \o ToStr(RowLimit))

\* an entity filter that also caps the rows
EntityFilterCapped(quoted_item, patterns) ==
    " AND (" \o PatternConditions(quoted_item, patterns) \o ") LIMIT 10"

\* lines 886-892: the entity filter appended to the comparison text
EntityFilter(quoted_item, patterns) ==
    " AND (" \o PatternConditions(quoted_item, patterns) \o ")"

\* a comparison text whose difference is taken the other way round
ComparisonTextReversed(item, col1, col2, table) ==
    "\n            SELECT " \o item \o ", \n"
    \o "                   " \o col1 \o " as Year_1,\n"
    \o "                   " \o col2 \o " as Year_2,\n"
    \o "                   (" \o col1 \o " - " \o col2 \o ") as Difference,\n"
    \o "                   ROUND(((" \o col1 \o " - " \o col2 \o ") * 100.0 / " \o col1
    \o "), 2) as Percentage_Change\n"
    \o "            FROM " \o table \o "\n"
    \o "            WHERE " \o item \o " IS NOT NULL AND " \o col1 \o " IS NOT NULL AND "
    \o col2 \o " IS NOT NULL\n"
    \o "            "

\* lines 876-884: the comparison text
ComparisonText(item, col1, col2, table) ==
    "\n            SELECT " \o item \o ", \n"
    \o "                   " \o col1 \o " as Year_1,\n"
    \o "                   " \o col2 \o " as Year_2,\n"
    \o "                   (" \o col2 \o " - " \o col1 \o ") as Difference,\n"
    \o "                   ROUND(((" \o col2 \o " - " \o col1 \o ") * 100.0 / " \o col1
    \o "), 2) as Percentage_Change\n"
    \o "            FROM " \o table \o "\n"
    \o "            WHERE " \o item \o " IS NOT NULL AND " \o col1 \o " IS NOT NULL AND "
    \o col2 \o " IS NOT NULL\n"
    \o "            "

\* the condition under which lines 858-897 are reached
ComparisonReached(it, columns, order) ==
    /\ Len(it.years) >= 2
    /\ Len(_find_year_columns(Take(it.years, 2), columns, order)) >= 2

\* lines 844-897 for the columns of the table
_generate_comparison_sql(it, table, columns, order) ==
    IF ~ComparisonReached(it, columns, order)
    THEN _generate_basic_sql(it, table, columns, order)
    ELSE LET year_columns == _find_year_columns(Take(it.years, 2), columns, order)
             col1     == year_columns[1]
             col2     == year_columns[2]
             item_col == ItemColumn(columns)
         IN  IF col1 = "" \/ col2 = "" THEN Raised
             ELSE IF item_col = None
             THEN Sql("SELECT * FROM " \o table \o " LIMIT " \o ToStr(RowLimit))
             ELSE Sql(ComparisonText(QuoteColumn(item_col), QuoteColumn(col1),
                                     QuoteColumn(col2), table)
                      \o EntityFilter(QuoteColumn(item_col),
                                      _get_entity_patterns(it.entity)))

NoDataSql == "SELECT 'No data available' as message"
TableNotFoundSql == "SELECT 'Table not found' as message"
ErrorSql == "SELECT 'Error generating query' as message"

\* line 708
TargetTable(dfs, it) == _find_best_table(it.entity, TableNames(dfs))

\* lines 713-717 for the chosen table
Synthesis(dfs, it, target, order) ==
    IF it.action = "compare"
    THEN _generate_comparison_sql(it, target, ColumnsOf(dfs, target), order)
    ELSE _generate_basic_sql(it, target, ColumnsOf(dfs, target), order)

\* a synthesis that lets the exception of a step reach its caller
GenerateSqlUnguarded(dfs, it, order) ==
    LET target == TargetTable(dfs, it)
    IN  IF TableNames(dfs) = <<>>
        THEN [raised |-> FALSE, sql |-> NoDataSql, tables |-> <<>>]
        ELSE IF target \in {None, ""}
        THEN [raised |-> FALSE, sql |-> TableNotFoundSql, tables |-> <<>>]
        ELSE LET out == Synthesis(dfs, it, target, order)
             IN  [raised |-> out.raised, sql |-> out.sql, tables |-> <<target>>]

\* lines 698-723 on the loaded catalog: the pair returned, never an exception
generate_sql(dfs, it, order) ==
    LET target == TargetTable(dfs, it)
    IN  IF TableNames(dfs) = <<>>
        THEN [raised |-> FALSE, sql |-> NoDataSql, tables |-> <<>>]
        ELSE IF target \in {None, ""}
        THEN [raised |-> FALSE, sql |-> TableNotFoundSql, tables |-> <<>>]
        ELSE LET out == Synthesis(dfs, it, target, order)
             IN  IF out.raised THEN [raised |-> FALSE, sql |-> ErrorSql, tables |-> <<>>]
                 ELSE [raised |-> FALSE, sql |-> out.sql, tables |-> <<target>>]

\* the catalog lookups generate_sql makes, in call order
SqlLookups(dfs, it, order) ==
    LET target == TargetTable(dfs, it)
    IN  <<"get_available_tables">>
        \o (IF TableNames(dfs) = <<>> THEN <<>>
            ELSE <<"_find_best_table">>
                 \o (IF target \in {None, ""} THEN <<>>
                     ELSE IF it.action = "compare"
                             /\ ~ComparisonReached(it, ColumnsOf(dfs, target), order)
                     THEN <<"get_table_info", "get_table_info">>
                     ELSE <<"get_table_info">>))

(***************************************************************************)
(* Inputs                                                                  *)
(***************************************************************************)
MaxWords == 2

\* the texts of at most n words of V, joined by single spaces
RECURSIVE TextsOfLen(_, _)
TextsOfLen(V, n) ==
    IF n = 0 THEN {""}
    ELSE IF n = 1 THEN V
    ELSE {t \o " " \o w : t \in TextsOfLen(V, n - 1), w \in V}

Texts(V, n) == UNION {TextsOfLen(V, k) : k \in 0..n}

\* training-row files: a question of stop words only, entities sharing a keyword,
\* an empty entity key, a line extending a built-in entity, a line with no separator
TrainingFiles == {
    <<>>,
    <<"What is it?|misc|all">>,
    <<"Show me the grants paid|grants|2024-25", "subsidies paid|Subsidies|all">>,
    <<"subsidies paid|Subsidies|all", "Show me the grants paid|grants|2024-25">>,
    <<"total levies||all">>,
    <<"what are the supplier costs|Expenses|all", "no separator here">> }

\* the training-row files process_query is run against
QueryTrainingFiles == {
    <<>>,
    <<"What is it?|misc|all">>,
    <<"what are the supplier costs|Expenses|all", "total levies||all">> }

QueryVocab == {" Hi", "thanks", "help", "status", "this", "revenue", "2024-25", "ndis",
               "compare", "total"}

EntityVocab == {"paid", "grants", "costs", "levies", "Cashflow", "equity", "total", "spend"}

(***************************************************************************)
(* Operations                                                              *)
(***************************************************************************)
\* NLPProcessor(): the knowledge base is built once from the training rows; there
\* is no data_file_mapping.xlsx
InitKB(files, orders) ==
    /\ mapping_file = NoMappingFile
    /\ file_mappings = _load_file_mappings(mapping_file)
    /\ row_file \in files
    /\ hash_order \in orders
    /\ metric_keywords = _build_metric_keywords(row_file, hash_order)

InitCall ==
    /\ pc = "ready"
    /\ ret = [op |-> "none"]
    /\ trace = <<>>

\* ExcelMapper(): nothing loaded yet; no call remembered, no concurrent request
InitIdle ==
    /\ data_dir = NoDirectory
    /\ dataframes = <<>>
    /\ loaded = FALSE
    /\ intent = FaultIntent
    /\ memo = [op |-> "none"]
    /\ threads = <<>>

\* what a call of the intent resolution engine leaves alone
Frame == UNCHANGED <<mapping_file, file_mappings, row_file, hash_order, metric_keywords, query, arg_entity, arg_years,
                     data_dir, dataframes, loaded, intent, memo, threads>>

\* nlp_processor.process_query(query)
ProcessQuery ==
    LET q    == Strip(Lower(query))
        conv == _detect_conversation_type(q)
        e    == _extract_entity(metric_keywords, q)
    IN  /\ pc' = "done"
        /\ trace' = ExtractorsRun(conv, e)
        /\ IF conv # None
           THEN ret' = [op |-> "process_query", value |-> ConversationIntent(conv, query)]
           ELSE \E ys \in Orderings(_extract_fiscal_year(q)) :
                   ret' = [op |-> "process_query",
                           value |-> FinancialIntent(metric_keywords, q, ys, e)]
        /\ Frame

\* nlp_processor._detect_conversation_type(query)
DetectConversationType ==
    /\ pc' = "done"
    /\ trace' = <<"_detect_conversation_type">>
    /\ ret' = [op |-> "_detect_conversation_type",
               value |-> _detect_conversation_type(query)]
    /\ Frame

Init ==
    /\ InitKB(QueryTrainingFiles, HashOrders)
    /\ query \in Texts(QueryVocab, MaxWords)
    /\ arg_entity = None
    /\ arg_years = <<>>
    /\ InitCall
    /\ InitIdle

Next == ProcessQuery \/ DetectConversationType

Spec == Init /\ [][Next]_vars

\* the rows of a data_file_mapping.xlsx: a metric in capitals, a metric of the
\* default table, a sheet without the metric column, an empty row read as NaN
MappingRows ==
    { FileMap("Grants", "3.1 Income Statement", "Income_Statement"),
      FileMap("cash", "3.4 CashFlow", "cash_flow"),
      FileMap("", "3.2 Balance Sheet", "balance_sheet"),
      FileMap("nan", "nan", "nan") }

MaxMappingRows == 2

MappingFiles ==
    {NoMappingFile} \cup
    {MappingFile(rows, at) : rows \in UNION {[1..n -> MappingRows] : n \in 0..MaxMappingRows},
                             at \in 1..(MaxMappingRows + 1)}

\* NLPProcessor.__init__ up to line 92: empty mappings
InitTraining ==
    /\ mapping_file \in {f \in MappingFiles : f.exists => f.fails_at <= Len(f.rows) + 1}
    /\ file_mappings = <<>>
    /\ row_file \in QueryTrainingFiles
    /\ hash_order = "fwd"
    /\ metric_keywords = <<>>
    /\ query = ""
    /\ arg_entity = None
    /\ arg_years = <<>>
    /\ InitCall
    /\ InitIdle

\* NLPProcessor._initialize_training_data(): each loader catches what it raises
InitializeTrainingData ==
    /\ pc = "ready"
    /\ pc' = "done"
    /\ trace' = <<"_load_file_mappings", "_load_row_mappings", "_load_column_mappings",
                  "_build_metric_keywords">>
    /\ ret' = [op |-> "_initialize_training_data", value |-> [raised |-> FALSE]]
    /\ file_mappings' = _load_file_mappings(mapping_file)
    /\ metric_keywords' = _build_metric_keywords(row_file, hash_order)
    /\ UNCHANGED <<mapping_file, row_file, hash_order, query, arg_entity, arg_years,
                   data_dir, dataframes, loaded, intent, memo, threads>>

NextTraining == InitializeTrainingData

SpecTraining == InitTraining /\ [][NextTraining]_vars

\* nlp_processor._extract_filters(query), on the lower-cased text as process_query
\* calls it (line 271)
ExtractFilters ==
    /\ pc' = "done"
    /\ trace' = <<"_extract_filters">>
    /\ ret' = [op |-> "_extract_filters", value |-> _extract_filters(query)]
    /\ Frame

FilterVocab == {"dss", "ndia", "ndis", "saus", "afis", "dfsv", "social services", "revenue"}

InitFilters ==
    /\ InitKB({<<>>}, {"fwd"})
    /\ query \in Texts(FilterVocab, MaxWords)
    /\ arg_entity = None
    /\ arg_years = <<>>
    /\ InitCall
    /\ InitIdle

NextFilters == ExtractFilters

SpecFilters == InitFilters /\ [][NextFilters]_vars

\* the entity resolution of process_query (lines 254 and 269) alone
ResolveEntity ==
    /\ pc' = "done"
    /\ trace' = <<"_extract_entity">>
    /\ ret' = [op |-> "_extract_entity",
               value |-> _extract_entity(metric_keywords, Strip(Lower(query)))]
    /\ Frame

InitEntity ==
    /\ InitKB(TrainingFiles, HashOrders)
    /\ query \in Texts(EntityVocab, MaxWords)
    /\ arg_entity = None
    /\ arg_years = <<>>
    /\ InitCall
    /\ InitIdle

NextEntity == ResolveEntity

SpecEntity == InitEntity /\ [][NextEntity]_vars

\* nlp_processor._extract_fiscal_year(query)
ExtractFiscalYear ==
    /\ pc' = "done"
    /\ trace' = <<"_extract_fiscal_year">>
    /\ \E ys \in Orderings(_extract_fiscal_year(query)) :
          ret' = [op |-> "_extract_fiscal_year", value |-> ys]
    /\ Frame

YearVocab == {"2024", "2024/25", "2024-25", "FY 2024", "FY 2024-25", "fiscal year 2024-25",
              "financial year 2023", "FY2027", "2025-26", "2030-31", "2022", "2024-26",
              "2024-2025", "for"}

InitYears ==
    /\ InitKB({<<>>}, {"fwd"})
    /\ query \in Texts(YearVocab, MaxWords)
    /\ arg_entity = None
    /\ arg_years = <<>>
    /\ InitCall
    /\ InitIdle

NextYears == ExtractFiscalYear

SpecYears == InitYears /\ [][NextYears]_vars

\* nlp_processor._extract_action(query)
ExtractAction ==
    /\ pc' = "done"
    /\ trace' = <<"_extract_action">>
    /\ ret' = [op |-> "_extract_action", value |-> _extract_action(query)]
    /\ Frame

ActionVocab == {"What", "show", "is", "compare", "versus", "total", "summary", "list",
                "display", "all", "island", "revenue"}

InitAction ==
    /\ InitKB({<<>>}, {"fwd"})
    /\ query \in Texts(ActionVocab, MaxWords)
    /\ arg_entity = None
    /\ arg_years = <<>>
    /\ InitCall
    /\ InitIdle

NextAction == ExtractAction

SpecAction == InitAction /\ [][NextAction]_vars

\* a scorer that answers from its previous answer when it has one
GetConfidenceScoreStale ==
    /\ pc' = "done"
    /\ trace' = <<"get_confidence_score">>
    /\ ret' = [op |-> "get_confidence_score",
               value |-> IF ret.op = "get_confidence_score" THEN ret.value
                         ELSE get_confidence_score(metric_keywords, arg_entity,
                                                   arg_years, query)]
    /\ Frame

\* nlp_processor.get_confidence_score(arg_entity, arg_years, query)
GetConfidenceScore ==
    /\ pc' = "done"
    /\ trace' = <<"get_confidence_score">>
    /\ ret' = [op |-> "get_confidence_score",
               value |-> get_confidence_score(metric_keywords, arg_entity, arg_years, query)]
    /\ Frame

ConfidenceVocab == {"Revenue", "income sales earnings receipts", "grants", "calculate",
                    "compare", "budget", "report"}

EntityArgs == {"revenue", "grants", "unknown"}

YearArgs == {<<>>, <<"2024-25">>, <<"2030-31">>, <<"2025-26", "2024-25">>,
             <<"2024-25", "2030-31", "2024-25">>,
             <<"2023-24", "2024-25", "2025-26", "2026-27", "2027-28">>}

InitConfidence ==
    /\ InitKB({<<>>, <<"Show me the grants paid|grants|2024-25">>}, HashOrders)
    /\ query \in Texts(ConfidenceVocab, MaxWords)
    /\ arg_entity \in EntityArgs
    /\ arg_years \in YearArgs
    /\ InitCall
    /\ InitIdle

NextConfidence == GetConfidenceScore

SpecConfidence == InitConfidence /\ [][NextConfidence]_vars

(***************************************************************************)
(* Repeated calls of the scorer on one processor                           *)
(***************************************************************************)
PurityTexts == {"Revenue", "grants budget", "compare report"}

PurityEntities == {"grants", "unknown"}

PurityYears == {<<>>, <<"2024-25", "2030-31", "2024-25">>}

\* the caller prepares its next call; it may keep the scorer call that just
\* returned, to compare a later call with
NewArguments ==
    /\ \E e \in PurityEntities, ys \in PurityYears, t \in PurityTexts :
          /\ arg_entity' = e
          /\ arg_years' = ys
          /\ query' = t
    /\ pc' = "ready"
    /\ \/ memo' = memo
       \/ /\ pc = "done" /\ ret.op = "get_confidence_score"
          /\ memo' = [op |-> ret.op, entity |-> arg_entity, years |-> arg_years,
                      text |-> query, value |-> ret.value]
    /\ UNCHANGED <<mapping_file, file_mappings, row_file, hash_order, metric_keywords, ret, trace,
                   data_dir, dataframes, loaded, intent, threads>>

InitPurity ==
    /\ InitKB({<<"Show me the grants paid|grants|2024-25">>}, HashOrders)
    /\ query \in PurityTexts
    /\ arg_entity \in PurityEntities
    /\ arg_years \in PurityYears
    /\ InitCall
    /\ InitIdle

NextPurity ==
    \/ NewArguments
    \/ GetConfidenceScore
    \/ ProcessQuery

SpecPurity == InitPurity /\ [][NextPurity]_vars

(***************************************************************************)
(* Direct calls of the SQL generator                                       *)
(***************************************************************************)
\* the state of the Excel mapper is all a call of the SQL generator may change
SqlFrame == UNCHANGED <<mapping_file, file_mappings, row_file, hash_order, metric_keywords, query, arg_entity, arg_years,
                        data_dir, intent, memo, threads>>

\* SQLGenerator(excel_mapper).generate_sql(intent); get_available_tables() loads
\* the Excel files first when they are not loaded
GenerateSql ==
    LET m == EnsureLoaded(data_dir, dataframes, loaded)
    IN  /\ pc' = "done"
        /\ dataframes' = m.dataframes
        /\ loaded' = m.loaded
        /\ trace' = SqlLookups(m.dataframes, intent, hash_order)
        /\ ret' = [op |-> "generate_sql",
                   value |-> generate_sql(m.dataframes, intent, hash_order)]
        /\ memo' = IF ret.op = "generate_sql" THEN ret ELSE memo
        /\ UNCHANGED <<mapping_file, file_mappings, row_file, hash_order, metric_keywords, query, arg_entity, arg_years,
                       data_dir, intent, threads>>

\* SQLGenerator(excel_mapper)._find_best_table(intent.entity, the table names)
FindBestTable ==
    /\ pc' = "done"
    /\ trace' = <<"_find_best_table">>
    /\ ret' = [op |-> "_find_best_table",
               value |-> _find_best_table(intent.entity,
                                          TableNames(LoadSheets(data_dir.sheets, <<>>)))]
    /\ UNCHANGED <<dataframes, loaded>>
    /\ SqlFrame

Sheet(file, sheet, columns) == [file |-> file, sheet |-> sheet, columns |-> columns]

IncomeSheet  == Sheet("Income Statement.xlsx", "Sheet1",
                      <<"Item", "Year 2024-25", "Year 2025-26", "Year 2026-27">>)
BalanceSheet == Sheet("Balance Sheet.xlsx", "FY", <<"Unnamed: 0", "2026-27", "2024-25">>)
BudgetSheet  == Sheet("Budget Notes.xls", "Agency",
                      <<"Agency", "Budget 2024-25 $'000", "Estimate\n2025-26 $'000">>)
BlankSheet   == Sheet("Balance (draft).xlsx", "1", <<"Account", "-", "2024-25">>)
CashSummary  == Sheet("Cash Flow Summary.xlsx", "Sheet1", <<"Item", "2024-25">>)
CashDfsv     == Sheet("DFSV Statement of CashFlow.xlsx", "Sheet1", <<"Item", "2024-25">>)
PettyCash    == Sheet("Petty Cash.xlsx", "Sheet1", <<"Item", "2024-25">>)
NamelessSheet == Sheet("-.xlsx", "-", <<"Item", "2024-25">>)
NotesSheet   == Sheet("Notes.xlsx", "Sheet1", <<"Agency", "Comment">>)

\* the data directories the generator is run on
SqlDirectories ==
    {NoDirectory, Directory(<<>>),
     Directory(<<IncomeSheet, BalanceSheet>>),
     Directory(<<BudgetSheet, IncomeSheet>>),
     Directory(<<BlankSheet>>),
     Directory(<<CashSummary, CashDfsv>>), Directory(<<CashDfsv, CashSummary>>),
     Directory(<<IncomeSheet, PettyCash, CashDfsv>>),
     Directory(<<PettyCash, IncomeSheet>>),
     Directory(<<NotesSheet>>)}

SqlYears == {<<>>, <<"2024-25">>, <<"2026-27">>, <<"2024-25", "2025-26">>,
             <<"2025-26", "2024-25">>, <<"2026-27", "2024-25", "2025-26">>, <<"">>}

SqlIntents ==
    {QueryIntent(a, e, ys, <<>>, ConfidenceFloor) :
        a \in {"get", "compare"}, e \in {"revenue", "cash_flow", "unknown"}, ys \in SqlYears}
    \cup {QueryIntent(a, "expenses", <<"2024-25">>, [agency |-> "ndis"], ConfidenceFloor) :
            a \in {"get", "compare"}}

InitSql ==
    /\ InitKB({<<>>}, ColumnOrders)
    /\ query = ""
    /\ arg_entity = None
    /\ arg_years = <<>>
    /\ InitCall
    /\ data_dir \in SqlDirectories
    /\ dataframes = <<>>
    /\ loaded = FALSE
    /\ intent \in SqlIntents
    /\ memo = [op |-> "none"]
    /\ threads = <<>>

NextSql == GenerateSql

SpecSql == InitSql /\ [][NextSql]_vars

\* the data directories the table choice is run on: the tables in either order
TableDirectories ==
    SqlDirectories
    \cup {Directory(<<a, b>>) : a, b \in {IncomeSheet, BalanceSheet, CashSummary, CashDfsv,
                                          PettyCash}}

TableEntities == {"revenue", "cash_flow", "equity", "cash", "unknown", ""}

InitTable ==
    /\ InitKB({<<>>}, {"fwd"})
    /\ query = ""
    /\ arg_entity = None
    /\ arg_years = <<>>
    /\ InitCall
    /\ data_dir \in TableDirectories
    /\ dataframes = <<>>
    /\ loaded = FALSE
    /\ intent \in {QueryIntent("get", e, <<>>, <<>>, ConfidenceFloor) : e \in TableEntities}
    /\ memo = [op |-> "none"]
    /\ threads = <<>>

NextTable == FindBestTable

SpecTable == InitTable /\ [][NextTable]_vars

(***************************************************************************)
(* SQLGenerator._find_year_columns on the columns of a loaded table        *)
(***************************************************************************)
EstimatesSheet == Sheet("Estimates.xlsx", "Sheet1",
                        <<"Item", "Actual 2023-24", "2024-25", "Notes 000">>)

ColumnDirectories ==
    {Directory(<<IncomeSheet>>), Directory(<<BalanceSheet>>), Directory(<<BudgetSheet>>),
     Directory(<<BlankSheet>>), Directory(<<NotesSheet>>), Directory(<<EstimatesSheet>>)}

\* no year, one year, a year no column is named after, years that share a
\* column, a year without a column beside one with a column, an empty year
ColumnYears == {<<>>, <<"2024-25">>, <<"2027-28">>, <<"2024-25", "2025-26">>,
                <<"2027-28", "2024-25">>, <<"2026-27", "2024-25", "2025-26">>, <<"">>}

\* the columns get_table_info gives for the first table of the catalog
TableColumns == dataframes[1].columns

\* SQLGenerator(excel_mapper)._find_year_columns(years, columns)
FindYearColumns ==
    /\ pc' = "done"
    /\ trace' = <<"_find_year_columns">>
    /\ ret' = [op |-> "_find_year_columns",
               value |-> _find_year_columns(arg_years, TableColumns, hash_order)]
    /\ UNCHANGED <<mapping_file, file_mappings, row_file, hash_order, metric_keywords, query, arg_entity, arg_years,
                   data_dir, dataframes, loaded, intent, memo, threads>>

InitColumns ==
    /\ InitKB({<<>>}, ColumnOrders)
    /\ query = ""
    /\ arg_entity = None
    /\ arg_years \in ColumnYears
    /\ InitCall
    /\ data_dir \in ColumnDirectories
    /\ dataframes = LoadSheets(data_dir.sheets, <<>>)
    /\ loaded = TRUE
    /\ intent = QueryIntent("get", "unknown", arg_years, <<>>, ConfidenceFloor)
    /\ memo = [op |-> "none"]
    /\ threads = <<>>

NextColumns == FindYearColumns

SpecColumns == InitColumns /\ [][NextColumns]_vars

(***************************************************************************)
(* Resolution and synthesis on malformed input                             *)
(***************************************************************************)
\* texts: empty, blank, conversational, financial, a period only, punctuation
FaultTexts == {"", "  ", " Hi", "revenue 2024-25", "compare total costs", "2024-25", "?|"}

\* directories: none, an empty one, a sheet with a column whose name cleans to
\* nothing, well-formed sheets, and a file and sheet whose names clean to nothing
FaultDirectories ==
    {NoDirectory, Directory(<<>>), Directory(<<BlankSheet>>),
     Directory(<<BlankSheet, IncomeSheet>>), Directory(<<BudgetSheet, IncomeSheet>>),
     Directory(<<NamelessSheet, IncomeSheet>>)}

\* intents: an empty year, an empty entity
FaultIntents ==
    {QueryIntent(a, e, ys, <<>>, ConfidenceFloor) :
        a \in {"get", "compare"}, e \in {"equity", "unknown", ""},
        ys \in {<<>>, <<"">>, <<"2024-25", "">>, <<"2024-25", "2026-27">>}}

\* either the text or the intent and the directory are varied
InitFault ==
    /\ InitKB(QueryTrainingFiles, HashOrders)
    /\ \/ /\ query \in FaultTexts
          /\ data_dir = NoDirectory
          /\ intent = FaultIntent
       \/ /\ query = ""
          /\ data_dir \in FaultDirectories
          /\ intent \in FaultIntents
    /\ arg_entity = None
    /\ arg_years = <<>>
    /\ InitCall
    /\ dataframes = <<>>
    /\ loaded = FALSE
    /\ memo = [op |-> "none"]
    /\ threads = <<>>

NextFault == ProcessQuery \/ GenerateSql

SpecFault == InitFault /\ [][NextFault]_vars

(***************************************************************************)
(* utils.validate_user_input                                               *)
(***************************************************************************)
MaxQueryLen == 500

\* the positions at which a run of at least n white-space characters from j ends
AfterSpaces(s, j, n) ==
    {k \in (j + n)..(Len(s) + 1) : \A x \in j..(k - 1) : IsSpace(Char(s, x))}

\* re.search(r'\b(w1|w2|...)\s+next\b', s) for the lowered text s
WordsThenWord(firsts, next, s) ==
    \E w \in firsts : \E i \in 1..Len(s) :
        /\ At(s, i, w)
        /\ WordBoundary(s, i)
        /\ \E k \in AfterSpaces(s, i + Len(w), 1) :
              At(s, k, next) /\ WordBoundary(s, k + Len(next))

\* re.search(r'\b(insert|update)\s+\w+\s+set\b', s)
ModifyStatement(s) ==
    \E w \in {"insert", "update"} : \E i \in 1..Len(s) :
        /\ At(s, i, w)
        /\ WordBoundary(s, i)
        /\ \E k \in AfterSpaces(s, i + Len(w), 1) : \E m \in (k + 1)..(Len(s) + 1) :
              /\ \A x \in k..(m - 1) : IsWordChar(Char(s, x))
              /\ \E n \in AfterSpaces(s, m, 1) : At(s, n, "set") /\ WordBoundary(s, n + 3)

\* re.search(r'--\s*$', s)
TrailingComment(s) ==
    \E i \in 1..Len(s) : At(s, i, "--") /\ (Len(s) + 1) \in AfterSpaces(s, i + 2, 0)

\* re.search(r'/\*.*\*/', s): the dot matches no line feed
BlockComment(s) ==
    \E i \in 1..Len(s) : \E j \in (i + 2)..Len(s) :
        /\ At(s, i, "/*")
        /\ At(s, j, "*/")
        /\ \A x \in (i + 2)..(j - 1) : Char(s, x) # "\n"

\* re.search(r'\bname\s*\(', s)
CallOf(name, s) ==
    \E i \in 1..Len(s) :
        /\ At(s, i, name)
        /\ WordBoundary(s, i)
        /\ \E k \in AfterSpaces(s, i + Len(name), 0) : Char(s, k) = "("

\* lines 373-385: one of the dangerous patterns is found, case ignored
IsDangerous(user_input) ==
    LET s == Lower(user_input)
    IN  \/ WordsThenWord({"drop", "delete", "truncate", "alter"}, "table", s)
        \/ ModifyStatement(s)
        \/ TrailingComment(s)
        \/ BlockComment(s)
        \/ WordsThenWord({"union"}, "select", s)
        \/ CallOf("exec", s)
        \/ CallOf("eval", s)

Invalid(error) == [valid |-> FALSE, error |-> error, cleaned_input |-> None]

\* lines 361-398
validate_user_input(user_input) ==
    IF user_input = "" \/ Strip(user_input) = "" THEN Invalid("Query cannot be empty")
    ELSE IF Len(user_input) > MaxQueryLen
    THEN Invalid("Query too long (max 500 characters)")
    ELSE IF IsDangerous(user_input) THEN Invalid("Invalid query format")
    ELSE [valid |-> TRUE, error |-> None, cleaned_input |-> Strip(user_input)]

(***************************************************************************)
(* views.ask_question                                                      *)
(***************************************************************************)
value_phrases == {"give me the value", "what is the value", "show me the value",
                  "tell me the value"}

year_patterns_followup == {"2023-24", "2023/24", "2023-2024", "2022-23", "2025-26",
                           "2024-2025", "2025-2026"}

\* s.strip('?')
RECURSIVE StripQuestionMarks(_)
StripQuestionMarks(s) ==
    IF s = "" THEN ""
    ELSE IF Char(s, 1) = "?" THEN StripQuestionMarks(Tail(s))
    ELSE IF Char(s, Len(s)) = "?" THEN StripQuestionMarks(SubSeq(s, 1, Len(s) - 1))
    ELSE s

\* lines 65-88: the question handed to process_query
ContextQuestion(question) ==
    IF Strip(Lower(question)) \in value_phrases
    THEN "What is the cash and cash equivalents for 2024-25?"
    ELSE IF /\ \E p \in year_patterns_followup : Contains(p, question)
            /\ WordCount(question) <= 3
    THEN LET stripped == Strip(StripQuestionMarks(question))
             normalized_year == IF Contains("2023-2024", stripped) THEN "2023-24"
                                ELSE IF Contains("2024-2025", stripped) THEN "2024-25"
                                ELSE IF Contains("2025-2026", stripped) THEN "2025-26"
                                ELSE stripped
         IN  "What is the cash and cash equivalents for " \o normalized_year \o "?"
    ELSE question

\* the intents process_query may return for the question: one for each order in
\* which list(set(years)) may come out
process_query(kb, user_query) ==
    UNION {LET conv == _detect_conversation_type(q)
           IN  IF conv # None THEN {ConversationIntent(conv, user_query)}
               ELSE UNION {{FinancialIntent(kb, q, ys, e) :
                               ys \in Orderings(_extract_fiscal_year(q))} :
                           e \in {_extract_entity(kb, q)}} :
           q \in {Strip(Lower(user_query))}}

\* a handler that takes no intent for conversational
IsConversationNever(it) == FALSE

\* line 95
IsConversation(it) == it.action = "conversation"

MaxRows == 2

Executed(rows, error_msg) == [rows |-> rows, error_msg |-> error_msg]

NoDataMessage == "No data available. Please ensure Excel files are loaded."

\* outcomes in which an empty result comes back without a message
TableOutcomesSilent(sql_query) ==
    IF ~Contains(" FROM ", sql_query) THEN {Executed(1, None)}
    ELSE {Executed(n, None) : n \in 0..MaxRows} \cup {Executed(0, "SQL execution error")}

\* the outcomes of a query against the loaded tables: some rows, none, or a failure
TableOutcomes(sql_query) ==
    IF ~Contains(" FROM ", sql_query) THEN {Executed(1, None)}
    ELSE {Executed(n, None) : n \in 1..MaxRows}
         \cup {Executed(0, "Query returned no results."),
               Executed(0, "SQL execution error")}

\* an execution that does not look whether any table is loaded
execute_sql_unchecked(dfs, sql_query) ==
    TableOutcomes(sql_query)

\* excel_mapper.py lines 126-175 once loading was attempted: the possible pairs of
\* the number of result rows and the error message; the cell values are not modelled
execute_sql(dfs, sql_query) ==
    IF dfs = <<>> THEN {Executed(0, NoDataMessage)}
    ELSE TableOutcomes(sql_query)

\* utils.handle_error(error_type, message)['error'] for the types the handler uses
handle_error(error_type) ==
    CASE error_type = "sql_error" ->
            "I couldn't process your query. Please try rephrasing your question."
      [] error_type = "data_not_found" ->
            "I couldn't find any data matching your request. Please try a different question."
      [] error_type = "processing_error" ->
            "There was an issue processing your request. Please try again."

EmptyData == [headers |-> <<>>, rows |-> <<>>, total_rows |-> 0]

\* the 'intent' entry of a response
IntentSummary(it) ==
    [entity |-> it.entity, action |-> it.action, years |-> it.years,
     confidence |-> it.confidence]

\* utils.py lines 19-30
common_queries ==
    << "What is the revenue for 2024-25?",
       "Show me operating expenses for 2025-26",
       "Compare revenue between 2024-25 and 2025-26",
       "What are the total assets for 2024-25?",
       "Show me cash flow for all years",
       "What is the net income for 2026-27?",
       "Compare expenses across all years",
       "What are employee benefits for 2024-25?",
       "Show me current liabilities",
       "What is the equity position for 2025-26?" >>

\* suggestion_generator.get_popular_queries()
get_popular_queries == common_queries

\* lines 52-56
ErrorResponse(code, error) == [code |-> code, status |-> "error", error |-> error]

\* lines 217-224
ProcessingErrorResponse(error) ==
    [code |-> 500, status |-> "error", error |-> error,
     suggestions |-> Take(get_popular_queries, 3)]

\* lines 154-161 and 207-215
QueryErrorResponse(code, error, sql_query) ==
    [code |-> code, status |-> "error", error |-> error, sql |-> sql_query,
     suggestions |-> Take(get_popular_queries, 3)]

\* lines 120-144
ConversationResponse(it) ==
    [code |-> 200, status |-> "success", sql |-> None, data |-> EmptyData,
     intent |-> IntentSummary(it)]

\* lines 176-205: the table data stand for the rows of the result
DataResponse(it, sql_query, rows) ==
    [code |-> 200, status |-> "success", sql |-> sql_query,
     data |-> [total_rows |-> rows], intent |-> IntentSummary(it)]

\* the load a handler step makes when the mapper is not loaded
LoadCalls(isloaded) == IF isloaded THEN <<>> ELSE <<"load_excel_files">>

Respond(value, calls) ==
    /\ pc' = "done"
    /\ ret' = [op |-> "ask_question", value |-> value]
    /\ trace' = calls

\* lines 146-215 for a financial intent: synthesis, execution, formatting; m is
\* the mapper after line 62, g after get_available_tables, x after execute_sql
AnswerFinancial(it, m, calls) ==
    \E g \in {EnsureLoaded(data_dir, m.dataframes, m.loaded)} :
    \E gen \in {generate_sql(g.dataframes, it, hash_order)} :
    \E x \in {EnsureLoaded(data_dir, g.dataframes, g.loaded)} :
    \E upto \in {calls \o <<"generate_sql">> \o LoadCalls(m.loaded)
                 \o SqlLookups(g.dataframes, it, hash_order)
                 \o <<"execute_sql">> \o LoadCalls(g.loaded)} :
        /\ dataframes' = x.dataframes
        /\ loaded' = x.loaded
        /\ memo' = [op |-> "generate_sql", value |-> gen]
        /\ \E out \in execute_sql(x.dataframes, gen.sql) :
              IF out.error_msg # None
              THEN Respond(QueryErrorResponse(500, handle_error("sql_error"), gen.sql),
                           upto \o <<"handle_error">>)
              ELSE IF out.rows > 0
              THEN Respond(DataResponse(it, gen.sql, out.rows),
                           upto \o <<"format_financial_data", "format_table_data",
                                     "format_response_text">>)
              ELSE Respond(QueryErrorResponse(404, handle_error("data_not_found"), gen.sql),
                           upto \o <<"handle_error">>)

\* lines 58-215 for a question that passed validation
AnswerValid(cleaned_input) ==
    \E m \in {EnsureLoaded(data_dir, dataframes, loaded)} :
    \E asked \in {ContextQuestion(cleaned_input)} :
    \E it \in process_query(metric_keywords, asked) :
        /\ intent' = it
        /\ IF IsConversation(it)
           THEN /\ Respond(ConversationResponse(it),
                           <<"validate_user_input">> \o LoadCalls(loaded)
                           \o <<"process_query", "generate_conversational_response">>)
                /\ dataframes' = m.dataframes
                /\ loaded' = m.loaded
                /\ UNCHANGED memo
           ELSE AnswerFinancial(it, m, <<"validate_user_input">> \o LoadCalls(loaded)
                                       \o <<"process_query">>)

\* POST /ask: body is "text" when request.data['question'] is a string
AskQuestion ==
    \E body \in {"text", "other"} :
    \E validation \in {validate_user_input(Strip(query))} :
        /\ UNCHANGED <<mapping_file, file_mappings, row_file, hash_order, metric_keywords, query, arg_entity,
                       arg_years, data_dir, threads>>
        /\ IF body = "other"
           THEN /\ Respond(ProcessingErrorResponse(handle_error("processing_error")),
                           <<"handle_error">>)
                /\ UNCHANGED <<dataframes, loaded, intent, memo>>
           ELSE IF ~validation.valid
           THEN /\ Respond(ErrorResponse(400, validation.error),
                           <<"validate_user_input">>)
                /\ UNCHANGED <<dataframes, loaded, intent, memo>>
           ELSE AnswerValid(validation.cleaned_input)

\* s repeated n times
RECURSIVE Repeat(_, _)
Repeat(s, n) == IF n = 0 THEN "" ELSE s \o Repeat(s, n - 1)

\* questions: blank, conversational, financial, follow-ups, rejected ones
AskTexts ==
    {"", "  ", " Hi ", "help", "revenue 2024-25", "compare revenue 2024-25 and 2026-27",
     "Give me the value", "2025-2026?", "What is it", "drop  table users",
     "update x set y", "total --", "/* x */ revenue", "union\tselect", "eval (1)",
     Repeat("revenue ", 63)}

AskDirectories ==
    {NoDirectory, Directory(<<>>), Directory(<<IncomeSheet, BalanceSheet>>),
     Directory(<<CashSummary, CashDfsv>>)}

InitAsk ==
    /\ InitKB({<<>>, <<"What is it?|misc|all">>}, HashOrders)
    /\ query \in AskTexts
    /\ arg_entity = None
    /\ arg_years = <<>>
    /\ InitCall
    /\ data_dir \in AskDirectories
    /\ dataframes = <<>>
    /\ loaded = FALSE
    /\ intent = FaultIntent
    /\ memo = [op |-> "none"]
    /\ threads = <<>>

NextAsk == AskQuestion

SpecAsk == InitAsk /\ [][NextAsk]_vars

(***************************************************************************)
(* Concurrent calls on the shared processor and mapper                     *)
(***************************************************************************)
NoResult == [op |-> "none"]

\* a call in flight: its arguments, its position and its local variables
Thread(op, user_query, it) ==
    [op |-> op, pc |-> "start", query |-> user_query, intent |-> it,
     years |-> <<>>, entity |-> [raised |-> FALSE, entity |-> None],
     next |-> 1, tables |-> <<>>, result |-> NoResult]

Running(i, op, at) == threads[i].op = op /\ threads[i].pc = at

\* thread i moves on with the changed fields; no step of a call writes the
\* knowledge base
Advance(i, changes) ==
    /\ threads' = [threads EXCEPT ![i] = changes @@ threads[i]]
    /\ UNCHANGED <<mapping_file, file_mappings, row_file, hash_order, metric_keywords, query, arg_entity, arg_years,
                   pc, ret, trace, data_dir, intent, memo>>

Finish(i, result) == Advance(i, [pc |-> "done", result |-> result])

\* process_query lines 254-265
Detect(i) ==
    /\ Running(i, "process_query", "start")
    /\ LET conv == _detect_conversation_type(Strip(Lower(threads[i].query)))
       IN  IF conv # None THEN Finish(i, ConversationIntent(conv, threads[i].query))
           ELSE Advance(i, [pc |-> "years"])
    /\ UNCHANGED <<dataframes, loaded>>

\* process_query line 268
Years(i) ==
    /\ Running(i, "process_query", "years")
    /\ \E ys \in Orderings(_extract_fiscal_year(Strip(Lower(threads[i].query)))) :
          Advance(i, [pc |-> "entity", years |-> ys])
    /\ UNCHANGED <<dataframes, loaded>>

\* process_query line 269, and lines 284-292 when it raises
Entity(i) ==
    /\ Running(i, "process_query", "entity")
    /\ LET e == _extract_entity(metric_keywords, Strip(Lower(threads[i].query)))
       IN  IF e.raised THEN Finish(i, FaultIntent)
           ELSE Advance(i, [pc |-> "score", entity |-> e])
    /\ UNCHANGED <<dataframes, loaded>>

\* process_query lines 270-282
Score(i) ==
    /\ Running(i, "process_query", "score")
    /\ Finish(i, FinancialIntent(metric_keywords, Strip(Lower(threads[i].query)),
                                 threads[i].years, threads[i].entity))
    /\ UNCHANGED <<dataframes, loaded>>

\* get_available_tables line 179, load_excel_files lines 31-33
Available(i) ==
    /\ Running(i, "generate_sql", "start")
    /\ Advance(i, IF loaded \/ ~data_dir.exists THEN [pc |-> "keys"]
                  ELSE [pc |-> "load", next |-> 1])
    /\ UNCHANGED <<dataframes, loaded>>

\* load_excel_files lines 61-94 for one sheet
LoadSheet(i) ==
    /\ Running(i, "generate_sql", "load")
    /\ threads[i].next <= Len(data_dir.sheets)
    /\ dataframes' = LoadSheets(<<data_dir.sheets[threads[i].next]>>, dataframes)
    /\ Advance(i, [next |-> threads[i].next + 1])
    /\ UNCHANGED loaded

\* load_excel_files line 104
Loaded(i) ==
    /\ Running(i, "generate_sql", "load")
    /\ threads[i].next > Len(data_dir.sheets)
    /\ loaded' = TRUE
    /\ Advance(i, [pc |-> "keys"])
    /\ UNCHANGED dataframes

\* get_available_tables line 181
Keys(i) ==
    /\ Running(i, "generate_sql", "keys")
    /\ Advance(i, [pc |-> "synth", tables |-> TableNames(dataframes)])
    /\ UNCHANGED <<dataframes, loaded>>

\* generate_sql lines 704-723 on the table names read before
Synthesize(i) ==
    /\ Running(i, "generate_sql", "synth")
    /\ LET it     == threads[i].intent
           target == _find_best_table(it.entity, threads[i].tables)
       IN  Finish(i, IF threads[i].tables = <<>>
                     THEN [raised |-> FALSE, sql |-> NoDataSql, tables |-> <<>>]
                     ELSE IF target \in {None, ""}
                     THEN [raised |-> FALSE, sql |-> TableNotFoundSql, tables |-> <<>>]
                     ELSE LET out == Synthesis(dataframes, it, target, hash_order)
                          IN  IF out.raised
                              THEN [raised |-> FALSE, sql |-> ErrorSql, tables |-> <<>>]
                              ELSE [raised |-> FALSE, sql |-> out.sql,
                                    tables |-> <<target>>])
    /\ UNCHANGED <<dataframes, loaded>>

\* the calls two requests may make at the same time
ConcurrentCalls ==
    {Thread("process_query", q, FaultIntent) :
        q \in {" Hi", "compare costs 2024-25 2026-27"}}
    \cup {Thread("generate_sql", "", it) :
            it \in {QueryIntent("get", "cash_flow", <<"2024-25">>, <<>>, ConfidenceFloor),
                    QueryIntent("compare", "revenue", <<"2024-25", "2026-27">>, <<>>,
                                ConfidenceFloor)}}

ConcurrentDirectories ==
    {NoDirectory, Directory(<<IncomeSheet, BalanceSheet>>),
     Directory(<<CashSummary, CashDfsv, IncomeSheet>>)}

InitConcurrent ==
    /\ InitKB({<<"What is it?|misc|all">>,
               <<"what are the supplier costs|Expenses|all", "total levies||all">>},
              HashOrders)
    /\ query = ""
    /\ arg_entity = None
    /\ arg_years = <<>>
    /\ InitCall
    /\ data_dir \in ConcurrentDirectories
    /\ dataframes = <<>>
    /\ loaded = FALSE
    /\ intent = FaultIntent
    /\ memo = [op |-> "none"]
    /\ threads \in {<<a, b>> : a, b \in ConcurrentCalls}

NextConcurrent ==
    \E i \in DOMAIN threads :
        \/ Detect(i)
        \/ Years(i)
        \/ Entity(i)
        \/ Score(i)
        \/ Available(i)
        \/ LoadSheet(i)
        \/ Loaded(i)
        \/ Keys(i)
        \/ Synthesize(i)

SpecConcurrent == InitConcurrent /\ [][NextConcurrent]_vars

(***************************************************************************)
(* Concurrent requests on the lazily loaded mapper                         *)
(***************************************************************************)
\* a request in flight: its handler, its position, where it goes on after a load,
\* the sheet its load is at, the values of excel_mapper.loaded it found, the
\* calls of load_excel_files it made, the table names it read last
Request(op, question) ==
    [op |-> op, pc |-> "start", query |-> question, after |-> "start", next |-> 1,
     found |-> <<>>, load_calls |-> 0, reads |-> 0, tables |-> <<>>, result |-> NoResult]

\* the tests "if not excel_mapper.loaded" of a handler and where each leads:
\* views.py line 61 and excel_mapper.py lines 179 and 129 for ask_question,
\* views.py line 245 and excel_mapper.py line 179 for health_check
AfterCheck(op, at) ==
    CASE at = "start" /\ op = "ask_question" -> "resolve"
      [] at = "start" /\ op = "health_check" -> "available"
      [] at = "available"                     -> "keys"
      [] at = "execute"                       -> "run"

\* load_excel_files sets the flag while sheets are still to be read
FlagFirst(next, sheets) == TRUE

\* load_excel_files line 104 comes after the loop over the files and sheets
FlagAfter(next, sheets) == next > Len(sheets)

\* if not self.loaded: self.load_excel_files(), up to the test of lines 31-33
CheckLoaded(i) ==
    /\ threads[i].op \in {"ask_question", "health_check"}
    /\ threads[i].pc \in {"start", "available", "execute"}
    /\ threads[i].pc = "execute" => threads[i].op = "ask_question"
    /\ \E after \in {AfterCheck(threads[i].op, threads[i].pc)} :
          Advance(i, IF loaded
                     THEN [pc |-> after, found |-> Append(threads[i].found, TRUE)]
                     ELSE [pc |-> IF data_dir.exists THEN "load" ELSE after,
                           after |-> after, next |-> 1,
                           found |-> Append(threads[i].found, FALSE),
                           load_calls |-> threads[i].load_calls + 1])
    /\ UNCHANGED <<dataframes, loaded>>

\* load_excel_files lines 61-94 for one sheet
ReadSheet(i) ==
    /\ threads[i].op \in {"ask_question", "health_check"}
    /\ threads[i].pc = "load"
    /\ threads[i].next <= Len(data_dir.sheets)
    /\ dataframes' = LoadSheets(<<data_dir.sheets[threads[i].next]>>, dataframes)
    /\ Advance(i, [next |-> threads[i].next + 1])
    /\ UNCHANGED loaded

\* load_excel_files lines 104-106
SetLoaded(i) ==
    /\ threads[i].op \in {"ask_question", "health_check"}
    /\ threads[i].pc = "load"
    /\ FlagAfter(threads[i].next, data_dir.sheets)
    /\ loaded' = TRUE
    /\ Advance(i, [pc |-> threads[i].after])
    /\ UNCHANGED dataframes

\* ask_question lines 90-144: a conversation is answered without the catalog
Resolve(i) ==
    /\ Running(i, "ask_question", "resolve")
    /\ \E it \in process_query(metric_keywords, threads[i].query) :
          IF IsConversation(it)
          THEN Finish(i, [op |-> "ask_question", code |-> 200, tables |-> <<>>])
          ELSE Advance(i, [pc |-> "available"])
    /\ UNCHANGED <<dataframes, loaded>>

\* get_available_tables line 181
ReadKeys(i) ==
    /\ threads[i].op \in {"ask_question", "health_check"}
    /\ threads[i].pc = "keys"
    /\ Advance(i, [pc |-> IF threads[i].op = "ask_question" THEN "execute" ELSE "respond",
                   tables |-> TableNames(dataframes),
                   reads |-> threads[i].reads + 1])
    /\ UNCHANGED <<dataframes, loaded>>

\* execute_sql lines 132-150: the tables the query environment is built from
RunQuery(i) ==
    /\ Running(i, "ask_question", "run")
    /\ \E names \in {TableNames(dataframes)} :
          Advance(i, [pc |-> "done", tables |-> names, reads |-> threads[i].reads + 1,
                      result |-> [op |-> "ask_question",
                                  code |-> IF names = <<>> THEN 500 ELSE 200,
                                  tables |-> names]])
    /\ UNCHANGED <<dataframes, loaded>>

\* health_check lines 250-258
RespondHealth(i) ==
    /\ Running(i, "health_check", "respond")
    /\ Finish(i, [op |-> "health_check", code |-> 200,
                  available_tables |-> Len(threads[i].tables),
                  table_names |-> Take(threads[i].tables, 5),
                  data_loaded |-> loaded])
    /\ UNCHANGED <<dataframes, loaded>>

LazyRequests ==
    {Request("ask_question", q) : q \in {"hello", "revenue 2024-25"}}
    \cup {Request("health_check", "")}

InitLazy ==
    /\ InitKB({<<>>}, {"fwd"})
    /\ query = ""
    /\ arg_entity = None
    /\ arg_years = <<>>
    /\ InitCall
    /\ data_dir \in ConcurrentDirectories
    /\ dataframes = <<>>
    /\ loaded = FALSE
    /\ intent = FaultIntent
    /\ memo = [op |-> "none"]
    /\ threads \in {<<a, b>> : a, b \in LazyRequests}

NextLazy ==
    \E i \in DOMAIN threads :
        \/ CheckLoaded(i)
        \/ ReadSheet(i)
        \/ SetLoaded(i)
        \/ Resolve(i)
        \/ ReadKeys(i)
        \/ RunQuery(i)
        \/ RespondHealth(i)

SpecLazy == InitLazy /\ [][NextLazy]_vars

(***************************************************************************)
(* Properties                                                              *)
(***************************************************************************)
Done(op) == pc = "done" /\ ret.op = op

SetOf(seq) == {seq[i] : i \in DOMAIN seq}

\* the word or phrase w stands in the text, delimited by spaces or the text's ends
WordIn(w, text) == Contains(" " \o w \o " ", " " \o Lower(text) \o " ")

AnyWordIn(words, text) == \E w \in words : WordIn(w, text)

\* the category the classifier is specified to give: the earliest category, in the
\* order hello, goodbye, help, status, one of whose words stands in the text
SpecifiedCategory(text) ==
    IF AnyWordIn(greeting_patterns[1].words, text) THEN "hello"
    ELSE IF AnyWordIn(greeting_patterns[2].words, text) THEN "goodbye"
    ELSE IF AnyWordIn(greeting_patterns[3].words, text) THEN "help"
    ELSE IF AnyWordIn(greeting_patterns[4].words, text) THEN "status"
    ELSE None

\* C1: a text matched by the conversational classifier gets the terminal intent
\* action = conversation, entity = the matched category, no years, confidence 1.0,
\* and process_query runs no financial extractor for it, whatever else the text holds.
C1_ConversationTerminal ==
    (Done("process_query") /\ SpecifiedCategory(query) # None) =>
        /\ ret.value.action = "conversation"
        /\ ret.value.entity = SpecifiedCategory(query)
        /\ ret.value.years = <<>>
        /\ ret.value.confidence = 100
        /\ trace = <<"_detect_conversation_type">>

\* a greeting that also holds a metric, a fiscal year or an agency code was resolved
C1_Witness ==
    /\ Done("process_query")
    /\ ret.value.action = "conversation"
    /\ AnyWordIn({"revenue", "2024-25", "ndis"}, query)

\* C2: for a text the classifier does not match, and for every knowledge base, the
\* confidence process_query returns lies between 0.90 and 1.0.
C2_ConfidenceFloor ==
    (Done("process_query") /\ SpecifiedCategory(query) = None) =>
        /\ ret.value.confidence >= 90
        /\ ret.value.confidence <= 100

\* C9: the classifier returns the earliest category, in the order hello, goodbye,
\* help, status, that has a matching pattern, and none exactly when no pattern of any
\* category matches; process_query takes the conversational path exactly then.
C9_ClassifierOrder ==
    /\ Done("_detect_conversation_type") => ret.value = SpecifiedCategory(query)
    /\ Done("process_query") =>
          /\ (ret.value.action = "conversation") = (SpecifiedCategory(query) # None)
          /\ ret.value.action = "conversation" => ret.value.entity = SpecifiedCategory(query)

\* a text with words of two categories was classified as the earlier one
C9_Witness ==
    /\ Done("_detect_conversation_type")
    /\ ret.value = "hello"
    /\ AnyWordIn(greeting_patterns[2].words \cup greeting_patterns[3].words, query)

(***************************************************************************)
(* Entity resolution (SpecEntity)                                          *)
(***************************************************************************)
\* the text entity resolution reads: process_query lower-cases and strips it
Resolved(text) == Strip(Lower(text))

\* the keywords of entry i of the knowledge base that occur in the text
Hits(kb, i, text) == {k \in SetOf(kb[i].keywords) : Contains(k, Resolved(text))}

RECURSIVE SumOfSquares(_)
SumOfSquares(S) ==
    IF S = {} THEN 0
    ELSE LET k == CHOOSE x \in S : TRUE
         IN  WordCount(k) * WordCount(k) + SumOfSquares(S \ {k})

\* finalScore = matches * rawScore / |K| of entry i, as numerator and denominator
FinalNum(kb, i, text) == Cardinality(Hits(kb, i, text)) * SumOfSquares(Hits(kb, i, text))
FinalDen(kb, i) == Len(kb[i].keywords)

Positive(kb, text) == {i \in DOMAIN kb : Hits(kb, i, text) # {}}

\* the word count of the longest keyword of entry i
Longest(kb, i) ==
    IF kb[i].keywords = <<>> THEN 0
    ELSE Max({WordCount(k) : k \in SetOf(kb[i].keywords)})

\* entry i has a higher finalScore than entry j
Higher(kb, i, j, text) ==
    FinalNum(kb, i, text) * FinalDen(kb, j) > FinalNum(kb, j, text) * FinalDen(kb, i)

SameScore(kb, i, j, text) ==
    FinalNum(kb, i, text) * FinalDen(kb, j) = FinalNum(kb, j, text) * FinalDen(kb, i)

\* entry i is evaluated before entry j: longer longest keyword first, then the
\* insertion order of the knowledge base
EvaluatedBefore(kb, i, j) ==
    Longest(kb, i) > Longest(kb, j) \/ (Longest(kb, i) = Longest(kb, j) /\ i < j)

\* the entries the claim names as winner: highest finalScore, earliest evaluated
\* among those of equal finalScore
Winners(kb, text) ==
    {w \in Positive(kb, text) : \A j \in Positive(kb, text) \ {w} :
        \/ Higher(kb, w, j, text)
        \/ SameScore(kb, w, j, text) /\ EvaluatedBefore(kb, w, j)}

\* the fallback bucket of the claim
SpecifiedFallback(text) ==
    LET q == Resolved(text)
    IN  IF ~AnyIn({"total", "sum", "amount"}, q) THEN "revenue"
        ELSE IF AnyIn({"spend", "cost", "expense"}, q) THEN "expenses"
        ELSE IF AnyIn({"earn", "income", "revenue"}, q) THEN "revenue"
        ELSE IF AnyIn({"asset", "holding"}, q) THEN "assets"
        ELSE "revenue"

\* C3: entity resolution never fails: for every text and every knowledge base,
\* an entity with an empty keyword list included, it returns a non-empty entity key
\* without raising, and the fallback bucket when no entity scores above zero.
C3_EntityNeverFails ==
    Done("_extract_entity") =>
        /\ ~ret.value.raised
        /\ ret.value.entity # ""
        /\ Positive(metric_keywords, query) = {} => ret.value.entity = SpecifiedFallback(query)

\* C4: when some entity scores above zero, the entity returned is the one with the
\* highest finalScore, the earliest in evaluation order among equal finalScores.
C4_HighestScoreWins ==
    (Done("_extract_entity") /\ Positive(metric_keywords, query) # {}) =>
        /\ ~ret.value.raised
        /\ \E w \in Winners(metric_keywords, query) :
              ret.value.entity = metric_keywords[w].entity

\* C5: for a fixed training file and text the outcome of entity resolution is the
\* same on every call and in every run, whatever order the keyword sets iterate in.
C5_EntityDeterministic ==
    Done("_extract_entity") =>
        \A o \in HashOrders :
            ret.value = _extract_entity(_build_metric_keywords(row_file, o), Resolved(query))

\* two entities tie on finalScore and on the word count of their longest keyword,
\* and no entity scores higher
C5_Witness ==
    /\ Done("_extract_entity")
    /\ ~ret.value.raised
    /\ \E i, j \in Positive(metric_keywords, query) :
          /\ i # j
          /\ SameScore(metric_keywords, i, j, query)
          /\ Longest(metric_keywords, i) = Longest(metric_keywords, j)
          /\ \A k \in Positive(metric_keywords, query) : ~Higher(metric_keywords, k, i, query)

(***************************************************************************)
(* Fiscal years (SpecYears)                                                *)
(***************************************************************************)
\* the space-separated tokens of the lower-cased text
Tokens(text) == SetOf(Split(Lower(text), " "))

\* the periods a token of the year vocabulary mentions, normalised as specified:
\* YYYY-ZZ and YYYY/ZZ read as written with a dash, a four-digit year YYYY that
\* stands between non-digits read as YYYY-(YY+1)
MentionedPeriods(token) ==
    CASE token = "2022"    -> {"2022-23"}
      [] token = "2023"    -> {"2023-24"}
      [] token = "2024"    -> {"2024-25"}
      [] token = "2024-25" -> {"2024-25"}
      [] token = "2024/25" -> {"2024-25"}
      [] token = "2024-26" -> {"2024-26", "2024-25"}
      [] token = "2024-2025" -> {"2024-20", "2024-25", "2025-26"}
      [] token = "2025-26" -> {"2025-26"}
      [] token = "fy2027"  -> {"2027-28"}
      [] token = "2030-31" -> {"2030-31"}
      [] OTHER             -> {}

PeriodsOf(text) == UNION {MentionedPeriods(t) : t \in Tokens(text)}

C7_Mentions == {"2024", "2024/25", "FY 2024", "FY 2024-25", "fiscal year 2024-25"}

\* C7: each period mention is normalised to YYYY-ZZ (slash to dash, a bare year YYYY
\* expanded to YYYY-(YY+1)), so the result is the set of the supported periods the
\* text mentions, and each listed mention of 2024-25 alone yields exactly {2024-25}.
C7_YearNormalization ==
    Done("_extract_fiscal_year") =>
        /\ SetOf(ret.value) = PeriodsOf(query) \cap SupportedYearSet
        /\ query \in C7_Mentions => ret.value = <<"2024-25">>

\* the long form and the slash form were each normalised to 2024-25
C7_Witness ==
    /\ Done("_extract_fiscal_year")
    /\ query \in {"fiscal year 2024-25", "2024/25", "FY 2024"}
    /\ ret.value = <<"2024-25">>

(***************************************************************************)
(* Actions (SpecAction)                                                    *)
(***************************************************************************)
GetWords == {"what", "show", "get", "tell", "find", "is", "are"}
CompareWords == {"compare", "versus", "vs", "against", "difference"}
CalculateWords == {"calculate", "compute", "sum", "total"}
ListWords == {"list", "show all", "display"}

\* C8: the categories are tested in the order get, compare, calculate, list, the
\* first with a matching pattern is returned and get is the default; so a text with
\* a get word resolves to get even beside compare, calculate or list words.
C8_ActionOrder ==
    Done("_extract_action") =>
        ret.value = IF AnyWordIn(GetWords, query) THEN "get"
                    ELSE IF AnyWordIn(CompareWords, query) THEN "compare"
                    ELSE IF AnyWordIn(CalculateWords, query) THEN "calculate"
                    ELSE IF AnyWordIn(ListWords, query) THEN "list"
                    ELSE "get"

\* a text with a get word and a compare, calculate or list word resolved to get
C8_Witness ==
    /\ Done("_extract_action")
    /\ AnyWordIn(GetWords, query)
    /\ AnyWordIn(CompareWords \cup CalculateWords \cup ListWords, query)
    /\ ret.value = "get"

(***************************************************************************)
(* Confidence (SpecConfidence)                                             *)
(***************************************************************************)
\* m: the keywords of the entity that occur in the lower-cased text
KeywordMatches(kb, entity, text) ==
    IF \E i \in DOMAIN kb : kb[i].entity = entity
    THEN Cardinality({k \in SetOf(kb[IndexOf(kb, entity)].keywords) : Contains(k, Lower(text))})
    ELSE 0

\* y: the entries of years that are in the allowlist
SupportedEntries(years) == Cardinality({i \in DOMAIN years : years[i] \in SupportedYearSet})

\* the sum of the claim before the floor and the clamp, in hundredths
SpecifiedSum(kb, entity, years, text) ==
    80 + Min2(15, 5 * KeywordMatches(kb, entity, text)) + 5 * SupportedEntries(years)
    + (IF _extract_action(text) \in {"get", "show", "compare"} THEN 5 ELSE 0)
    + (IF \E w \in financial_indicators : Contains(w, Lower(text)) THEN 5 ELSE 0)
    + (IF \E w \in formal_terms : Contains(w, Lower(text)) THEN 2 ELSE 0)

\* C10: get_confidence_score = min(1.0, max(0.90, 0.80 + min(0.15, 0.05 m) + 0.05 y
\* + a + i + f)), the floor and the clamp applied once after all additions.
C10_ConfidenceFormula ==
    Done("get_confidence_score") =>
        ret.value = Min2(100, Max2(90, SpecifiedSum(metric_keywords, arg_entity, arg_years, query)))

\* more than three keywords matched and the sum stayed between the floor and the clamp
C10_Witness ==
    /\ Done("get_confidence_score")
    /\ KeywordMatches(metric_keywords, arg_entity, query) > 3
    /\ SpecifiedSum(metric_keywords, arg_entity, arg_years, query) > 90
    /\ SpecifiedSum(metric_keywords, arg_entity, arg_years, query) < 100

(***************************************************************************)
(* C11: the scorer is a pure function of (entity, years, text) and the     *)
(* knowledge base                                                          *)
(***************************************************************************)
\* the scorer call that just returned has the arguments of the call kept in memo
SameCallAsMemo ==
    /\ Done("get_confidence_score")
    /\ memo.op = "get_confidence_score"
    /\ memo.entity = arg_entity /\ memo.years = arg_years /\ memo.text = query

Catalog == dataframes

UsedColumns == ColumnsOf(Catalog, ret.value.tables[1])

\* the text between SELECT and FROM
SelectList(sql) ==
    LET from == CHOOSE i \in 1..Len(sql) : At(sql, i, " FROM ")
                                           /\ \A j \in 1..(i - 1) : ~At(sql, j, " FROM ")
    IN  SubSeq(sql, 8, from - 1)

\* the columns whose name embeds the period of year y, as in 2024_25
PeriodColumns(columns, y) ==
    {i \in DOMAIN columns : Contains(Replace(y, "-", "_"), columns[i])}

\* an item column first, then value columns that each embed one supported period,
\* no period twice
PeriodTable(columns) ==
    /\ Len(columns) >= 2
    /\ Lower(columns[1]) \in {"item", "description", "account"}
       \/ Contains("unnamed", Lower(columns[1]))
    /\ \A i \in 2..Len(columns) :
          \E y \in SupportedYearSet : PeriodColumns(columns, y) = {i}

\* a get intent with one supported year has been synthesized against a period
\* table that has a column for that year
OneYearGet ==
    /\ Done("generate_sql")
    /\ ret.value.tables # <<>>
    /\ intent.action = "get"
    /\ Len(intent.years) = 1
    /\ intent.years[1] \in SupportedYearSet
    /\ PeriodTable(UsedColumns)
    /\ PeriodColumns(UsedColumns, intent.years[1]) # {}

\* C12: for a get intent with exactly one supported year, against a table with an
\* item column and one value column per fiscal year, the select list is the item
\* column and the column of the requested year, nothing else
C12_OneYearColumn ==
    OneYearGet =>
        LET c == UsedColumns
            i == CHOOSE k \in PeriodColumns(c, intent.years[1]) : TRUE
        IN  SelectList(ret.value.sql) \in {c[1] \o ", " \o c[i],
                                           c[1] \o ", " \o BackQuote \o c[i] \o BackQuote}

(***************************************************************************)
(* C13: the comparison form                                                *)
(***************************************************************************)
\* the columns of the table that resolve as year columns for the years
ResolvedYearColumns(years, columns) ==
    LET matched == {c \in SetOf(columns) :
                       \E y \in SetOf(years) : \E v \in year_variants(y) :
                           Contains(v, Lower(c))}
    IN  IF matched # {} THEN matched ELSE SetOf(FallbackYearColumns(columns))

\* sql compares column c1 as Year_1 with column c2 as Year_2, per item
HasComparisonForm(sql, item, c1, c2) ==
    /\ Contains("SELECT " \o item \o ", ", sql)
    /\ Contains(" " \o c1 \o " as Year_1,", sql)
    /\ Contains(" " \o c2 \o " as Year_2,", sql)
    /\ Contains("(" \o c2 \o " - " \o c1 \o ") as Difference,", sql)
    /\ Contains("ROUND(((" \o c2 \o " - " \o c1 \o ") * 100.0 / " \o c1
                \o "), 2) as Percentage_Change", sql)
    /\ Contains("WHERE " \o item \o " IS NOT NULL AND " \o c1 \o " IS NOT NULL AND "
                \o c2 \o " IS NOT NULL", sql)

\* sql has the comparison form for an item column and two resolved year columns
IsComparison(sql, columns, resolved) ==
    \E i \in SetOf(columns), c1, c2 \in resolved :
        /\ c1 # c2
        /\ HasComparisonForm(sql, QuoteColumn(i), QuoteColumn(c1), QuoteColumn(c2))

\* a compare intent has been synthesized against a table
CompareCall ==
    /\ Done("generate_sql")
    /\ ret.value.tables # <<>>
    /\ intent.action = "compare"

\* what the code asks for before it writes the comparison form
ComparisonAsked ==
    /\ CompareCall
    /\ Len(intent.years) >= 2
    /\ Cardinality(ResolvedYearColumns(Take(intent.years, 2), UsedColumns)) >= 2
    /\ ItemColumn(UsedColumns) # None

\* C13, as the source has it: a compare intent with at least two years, of which
\* the first two resolve at least two year columns in a table with an item column,
\* gets the comparison form over that item column and two of those columns; any
\* other compare intent gets no Year_1 and Year_2 aliases
C13_ComparisonForm ==
    /\ ComparisonAsked =>
          IsComparison(ret.value.sql, UsedColumns,
                       ResolvedYearColumns(Take(intent.years, 2), UsedColumns))
    /\ CompareCall /\ ~ComparisonAsked => ~Contains(" as Year_", ret.value.sql)

\* C13 as stated: action compare and at least two year columns resolving in the
\* chosen table give the comparison form
C13_AsStated ==
    (CompareCall /\ Cardinality(ResolvedYearColumns(intent.years, UsedColumns)) >= 2)
        => IsComparison(ret.value.sql, UsedColumns,
                        ResolvedYearColumns(intent.years, UsedColumns))

\* a comparison of two requested years against the income statement
C13_Witness ==
    /\ ComparisonAsked
    /\ intent.years = <<"2025-26", "2024-25">>
    /\ ret.value.tables = <<"Income_Statement_Sheet1">>
    /\ Contains("Item IS NOT NULL", ret.value.sql)

(***************************************************************************)
(* C14: the row cap                                                        *)
(***************************************************************************)
\* the text ends with tail
EndsWith(text, tail) ==
    /\ Len(text) >= Len(tail)
    /\ SubSeq(text, Len(text) - Len(tail) + 1, Len(text)) = tail

\* a query against a table has been synthesized
DataQuery == Done("generate_sql") /\ ret.value.tables # <<>>

\* C14, as the source has it: a query in the comparison form (compare, two years
\* resolving two columns, an item column) carries no row limit, and every other
\* query against a table ends with a limit of 10 rows
C14_RowCap ==
    DataQuery =>
        IF ComparisonAsked
        THEN ~Contains("LIMIT", ret.value.sql)
        ELSE EndsWith(ret.value.sql, " LIMIT 10")

\* C14 as stated: action compare with at least two resolved year columns gives a
\* query without a row limit, and any other query ends with a limit of 10 rows
C14_AsStated ==
    DataQuery =>
        IF /\ intent.action = "compare"
           /\ Cardinality(ResolvedYearColumns(intent.years, UsedColumns)) >= 2
        THEN ~Contains("LIMIT", ret.value.sql)
        ELSE EndsWith(ret.value.sql, " LIMIT 10")

\* an uncapped comparison of the cash flow of two years
C14_Witness ==
    /\ ComparisonAsked
    /\ intent.entity = "cash_flow"
    /\ Contains(" as Year_2", ret.value.sql)
    /\ ~Contains("LIMIT", ret.value.sql)

\* a capped basic query, reached as well
C14_CappedReached ==
    /\ DataQuery
    /\ intent.action = "get"
    /\ EndsWith(ret.value.sql, " LIMIT 10")

C16_BasicTwice ==
    /\ Done("generate_sql")
    /\ memo.op = "generate_sql"
    /\ memo.value = ret.value
    /\ intent.action = "get"
    /\ Contains("Year_2024_25", ret.value.sql)

(***************************************************************************)
(* C17: the table of a cash flow question                                  *)
(***************************************************************************)
\* the table names _find_best_table was given, in catalog order
OfferedTables == TableNames(LoadSheets(data_dir.sheets, <<>>))

\* the tables whose name has 'cash' and the marker 'dfsv'
MarkedTables == {t \in SetOf(OfferedTables) : Contains("cash", Lower(t))
                                              /\ Contains("dfsv", Lower(t))}

\* the tables whose name has 'cash', in catalog order
CashTables == SelectSeq(OfferedTables, LAMBDA t : Contains("cash", Lower(t)))

\* C17: for entity cash_flow, _find_best_table returns a table with 'cash' and
\* 'dfsv' in its name whenever the catalog has one, and otherwise the first table
\* with 'cash' in its name
C17_MarkerPreferred ==
    (Done("_find_best_table") /\ intent.entity = "cash_flow") =>
        IF MarkedTables # {} THEN ret.value \in MarkedTables
        ELSE CashTables # <<>> => ret.value = CashTables[1]

(***************************************************************************)
(* C19: resolution and synthesis never raise                               *)
(***************************************************************************)
\* the value is a QueryIntent
IsQueryIntent(v) == DOMAIN v = {"action", "entity", "years", "filters", "confidence"}

\* a step of the financial resolution of the query raises
ResolutionFault ==
    LET q == Strip(Lower(query))
    IN  /\ _detect_conversation_type(q) = None
        /\ _extract_entity(metric_keywords, q).raised

\* a step of the synthesis for the intent raises
SynthesisFault ==
    /\ TableNames(Catalog) # <<>>
    /\ TargetTable(Catalog, intent) \notin {None, ""}
    /\ Synthesis(Catalog, intent, TargetTable(Catalog, intent), hash_order).raised

\* C19: process_query returns a QueryIntent for every text, the default intent
\* (get, unknown, no years, no filters, confidence 0) when a step raised; and
\* generate_sql returns a (query, tables) pair for every intent and catalog, the
\* 'Error generating query' message with no table when a step raised
C19_NeverRaise ==
    /\ Done("process_query") =>
          /\ IsQueryIntent(ret.value)
          /\ ResolutionFault => ret.value = FaultIntent
    /\ Done("generate_sql") =>
          /\ ~ret.value.raised
          /\ SynthesisFault => (ret.value.sql = ErrorSql /\ ret.value.tables = <<>>)

\* a synthesis over a column with an empty name, answered with the error message
C19_Witness ==
    /\ Done("generate_sql")
    /\ SynthesisFault
    /\ intent.years = <<"">>
    /\ ret.value.sql = ErrorSql

\* a resolution whose entity scoring raised, answered with the default intent
C19_DefaultIntentReached ==
    /\ Done("process_query")
    /\ ResolutionFault
    /\ query = "revenue 2024-25"
    /\ ret.value = FaultIntent

(***************************************************************************)
(* C15: a question against an empty schema catalog                         *)
(***************************************************************************)
\* a request went through synthesis and no table is loaded
EmptyCatalogRequest ==
    /\ Done("ask_question")
    /\ "generate_sql" \in SetOf(trace)
    /\ Catalog = <<>>

\* C15: with an empty catalog generate_sql returns the 'No data available' query
\* with an empty table list, looks up no table and no column, and the request
\* ends in an error response
C15_EmptyCatalog ==
    EmptyCatalogRequest =>
        /\ memo.value = [raised |-> FALSE, sql |-> NoDataSql, tables |-> <<>>]
        /\ "get_available_tables" \in SetOf(trace)
        /\ SetOf(trace) \cap {"_find_best_table", "get_table_info"} = {}
        /\ ret.value.status = "error"
        /\ ret.value.code = 500
        /\ ret.value.sql = NoDataSql

\* a revenue question asked while the data directory is missing
C15_Witness ==
    /\ EmptyCatalogRequest
    /\ data_dir = NoDirectory
    /\ query = "revenue 2024-25"
    /\ intent.entity = "revenue"
    /\ ret.value.status = "error"

(***************************************************************************)
(* C20: the conversational short cut and the order of the pipeline         *)
(***************************************************************************)
\* the position of the call in the trace, 0 when it was not made
Position(name) ==
    IF name \in SetOf(trace) THEN CHOOSE i \in DOMAIN trace : trace[i] = name ELSE 0

\* a request whose question was resolved to an intent
ResolvedRequest == Done("ask_question") /\ "process_query" \in SetOf(trace)

\* C20: a request resolved to a conversational intent gets a success response
\* with sql None and empty data and runs neither generate_sql nor execute_sql;
\* any other resolved request runs generate_sql before execute_sql, and
\* execute_sql before the formatters
C20_ShortCircuit ==
    ResolvedRequest =>
        IF intent.action = "conversation"
        THEN /\ ret.value.status = "success"
             /\ ret.value.code = 200
             /\ ret.value.sql = None
             /\ ret.value.data = EmptyData
             /\ SetOf(trace) \cap {"generate_sql", "execute_sql", "get_available_tables",
                                   "format_table_data"} = {}
        ELSE /\ 0 < Position("generate_sql")
             /\ Position("generate_sql") < Position("execute_sql")
             /\ \A f \in {"format_financial_data", "format_table_data",
                          "format_response_text"} :
                    f \in SetOf(trace) => Position("execute_sql") < Position(f)

\* a greeting answered without a query
C20_Witness ==
    /\ ResolvedRequest
    /\ query = " Hi "
    /\ intent.action = "conversation"
    /\ ret.value.sql = None
    /\ loaded

\* a financial question whose result was formatted
C20_FormattedReached ==
    /\ ResolvedRequest
    /\ intent.action = "compare"
    /\ Position("format_response_text") > Position("execute_sql")
    /\ ret.value.status = "success"
    /\ ret.value.data.total_rows = MaxRows

(***************************************************************************)
(* C18: the knowledge base is read-only, concurrent calls do not interfere *)
(***************************************************************************)
\* the results the call of a thread may have when it runs alone, from the
\* knowledge base built at start and a mapper that has loaded nothing yet
AloneResults(t) ==
    IF t.op = "process_query"
    THEN process_query(_build_metric_keywords(row_file, hash_order), t.query)
    ELSE {generate_sql(EnsureLoaded(data_dir, <<>>, FALSE).dataframes, t.intent,
                       hash_order)}

\* C18: no step of a call changes the knowledge base, and in every interleaving
\* of two calls each finished call has a result it can have when run alone
C18_ReadOnly ==
    /\ metric_keywords = _build_metric_keywords(row_file, hash_order)
    /\ \A i \in DOMAIN threads :
          threads[i].pc = "done" => threads[i].result \in AloneResults(threads[i])

\* two syntheses for the same entity that loaded the sheets in turns, both done
C18_Witness ==
    /\ Len(threads) = 2
    /\ \A i \in DOMAIN threads : /\ Running(i, "generate_sql", "done")
                                 /\ threads[i].intent.entity = "cash_flow"
                                 /\ threads[i].next > 1
                                 /\ threads[i].result.tables # <<>>
    /\ loaded

\* a resolution and a synthesis finished side by side
C18_MixedReached ==
    /\ Len(threads) = 2
    /\ Running(1, "process_query", "done")
    /\ threads[1].result.action = "compare"
    /\ Running(2, "generate_sql", "done")
    /\ threads[2].result.tables # <<>>

(***************************************************************************)
(* C21: a table is always found in a non-empty catalog                     *)
(***************************************************************************)
\* C21: against a non-empty catalog generate_sql never gives the 'Table not
\* found' query, and the table it names is a table of the catalog
C21_TableFound ==
    (Done("generate_sql") /\ TableNames(Catalog) # <<>>) =>
        /\ ret.value.sql # TableNotFoundSql
        /\ ret.value.tables # <<>> => ret.value.tables[1] \in SetOf(TableNames(Catalog))

(***************************************************************************)
(* C22: the select list of a basic query                                   *)
(***************************************************************************)
\* the names in the select list, without their quotes
SelectedColumns(sql) ==
    LET names == Split(Replace(SelectList(sql), " ", ""), ",")
    IN  [i \in DOMAIN names |-> Replace(names[i], BackQuote, "")]

\* the positions of the columns that may head a select list: an item column is
\* named item, description or account, or has 'unnamed' in its name
ItemPositions(columns) ==
    {i \in DOMAIN columns : \/ Lower(columns[i]) \in {"item", "description", "account"}
                            \/ Contains("unnamed", Lower(columns[i]))}

\* a query built by _generate_basic_sql: no compare intent with two years that
\* resolve two columns
BasicQuery ==
    /\ DataQuery
    /\ \/ intent.action # "compare"
       \/ Len(intent.years) < 2
       \/ Cardinality(ResolvedYearColumns(Take(intent.years, 2), UsedColumns)) < 2

\* C22: the select list of a basic query is the first item column, when the table
\* has one, followed by the matched year columns, each once, in non-decreasing
\* order of the year in their names; it is '*' when no item column, no entity
\* column and no year column is found
C22_SelectList ==
    BasicQuery =>
        LET cols     == UsedColumns
            selected == SelectedColumns(ret.value.sql)
            items    == ItemPositions(cols)
            heads    == IF items # {}
                        THEN <<cols[CHOOSE i \in items : \A j \in items : i <= j]>>
                        ELSE _find_entity_columns(cols)
            years    == ResolvedYearColumns(intent.years, cols)
            rest     == SubSeq(selected, Len(heads) + 1, Len(selected))
        IN  IF heads = <<>> /\ years = {} THEN selected = <<"*">>
            ELSE /\ SubSeq(selected, 1, Len(heads)) = heads
                 /\ SetOf(rest) = years
                 /\ Len(rest) = Cardinality(years)
                 /\ \A i, j \in DOMAIN rest :
                       i < j => _extract_year_from_column(rest[i])
                                <= _extract_year_from_column(rest[j])

\* three years asked for latest first, their columns selected earliest first
C22_Witness ==
    /\ BasicQuery
    /\ intent.years = <<"2026-27", "2024-25", "2025-26">>
    /\ SelectedColumns(ret.value.sql)
           = <<"Item", "Year_2024_25", "Year_2025_26", "Year_2026_27">>

\* a table without item, entity and year columns, selected whole
C22_StarReached ==
    /\ BasicQuery
    /\ ret.value.tables = <<"Notes_Sheet1">>
    /\ SelectedColumns(ret.value.sql) = <<"*">>

(***************************************************************************)
(* C23: year-column discovery                                              *)
(***************************************************************************)
\* the column name holds one of the spellings of the year
NamesYear(c, y) ==
    \E v \in {Replace(y, "-", "_"), Replace(y, "-", ""), Take(y, 4), LastTwo(y),
              "fy_" \o Take(y, 4), "budget_" \o Take(y, 4)} : Contains(v, Lower(c))

\* the columns named after one of the years
YearNamed(years, columns) ==
    {c \in SetOf(columns) : \E i \in DOMAIN years : NamesYear(c, years[i])}

\* the columns with a digit and a financial word in their name
FinancialNamed(columns) ==
    {c \in SetOf(columns) :
        /\ \E d \in {"0", "1", "2", "3", "4", "5", "6", "7", "8", "9"} : Contains(d, c)
        /\ \E k \in {"budget", "estimate", "actual", "dollar", "000"} :
              Contains(k, Lower(c))}

\* C23: _find_year_columns returns the columns named after a requested year when
\* there is one, and otherwise the columns with a digit and a financial word;
\* no column is returned twice
C23_YearColumns ==
    Done("_find_year_columns") =>
        LET named == YearNamed(arg_years, TableColumns)
        IN  /\ SetOf(ret.value) = IF named # {} THEN named ELSE FinancialNamed(TableColumns)
            /\ Cardinality(SetOf(ret.value)) = Len(ret.value)

\* a year without a column beside a year with one: no fallback, although the
\* table has columns the fallback would take
C23_Witness ==
    /\ Done("_find_year_columns")
    /\ arg_years = <<"2027-28", "2024-25">>
    /\ ret.value = <<"2024_25">>
    /\ FinancialNamed(TableColumns) = {"Actual_2023_24", "Notes_000"}

\* no column named after the year: the fallback columns
C23_FallbackReached ==
    /\ Done("_find_year_columns")
    /\ arg_years = <<"2027-28">>
    /\ SetOf(ret.value) = {"Actual_2023_24", "Notes_000"}

\* a column named after two requested years, returned once
C23_SharedReached ==
    /\ Done("_find_year_columns")
    /\ arg_years = <<"2024-25", "2025-26">>
    /\ NamesYear("Year_2025_26", "2024-25") /\ NamesYear("Year_2025_26", "2025-26")
    /\ SetOf(ret.value) = {"Year_2024_25", "Year_2025_26", "Year_2026_27"}
    /\ Len(ret.value) = 3

(***************************************************************************)
(* C24: the filters of a synthesized query                                 *)
(***************************************************************************)
\* the predicate over the item column for the patterns of the intent's entity
ItemPredicate ==
    LET item == QuoteColumn(UsedColumns[CHOOSE i \in ItemPositions(UsedColumns) :
                                            \A j \in ItemPositions(UsedColumns) : i <= j])
    IN  "(" \o PatternConditions(item, _get_entity_patterns(intent.entity)) \o ")"

HasAgencyFilter == "agency" \in DOMAIN intent.filters

AgencyPredicate == "UPPER(Agency) = '" \o Upper(intent.filters.agency) \o "'"

\* C24: a data query holds the item predicate exactly when the table has an item
\* column and the entity is not 'unknown', and the agency predicate exactly when
\* the intent has an agency filter and the table an Agency column
C24_Filters ==
    DataQuery =>
        /\ IF ItemPositions(UsedColumns) # {} /\ intent.entity # "unknown"
           THEN Contains(ItemPredicate, ret.value.sql)
           ELSE ~Contains(" LIKE ", ret.value.sql)
        /\ IF HasAgencyFilter /\ "Agency" \in SetOf(UsedColumns)
           THEN Contains(AgencyPredicate, ret.value.sql)
           ELSE ~Contains("UPPER(", ret.value.sql)

\* the same for the queries built by _generate_basic_sql
C24_BasicFilters == BasicQuery => C24_Filters

C24_AgencyReached ==
    /\ BasicQuery
    /\ HasAgencyFilter
    /\ Contains(AgencyPredicate, ret.value.sql)

(***************************************************************************)
(* C25: filter extraction                                                  *)
(***************************************************************************)
\* the agency codes that occur in the text
CodesIn(text) == {a \in SetOf(agencies) : Contains(a, text)}

\* the filters hold the code a
Reflected(filters, a) == "agency" \in DOMAIN filters /\ filters["agency"] = Upper(a)

\* C25: every agency code that occurs in the text is reflected in the filters,
\* whichever other codes occur with it
C25_Additive ==
    Done("_extract_filters") => \A a \in CodesIn(query) : Reflected(ret.value, a)

\* the same for texts with at most one agency code
C25_OneCode ==
    (Done("_extract_filters") /\ Cardinality(CodesIn(query)) <= 1) =>
        /\ \A a \in CodesIn(query) : Reflected(ret.value, a)
        /\ CodesIn(query) = {} => "agency" \notin DOMAIN ret.value
        /\ "department" \in DOMAIN ret.value <=> Contains("social services", query)

C25_OneCodeReached ==
    /\ Done("_extract_filters")
    /\ query = "ndis social services"
    /\ ret.value = [agency |-> "NDIS", department |-> "Social Services"]

(***************************************************************************)
(* C26: the entity-to-file mapping without its artifact                    *)
(***************************************************************************)
MappedEntities == {file_mappings[i].metric : i \in DOMAIN file_mappings}

StatementTypes == {file_mappings[i].statement_type : i \in DOMAIN file_mappings}

\* initialization has run on a missing or failing data_file_mapping.xlsx
DefaultsNeeded ==
    Done("_initialize_training_data") /\ (~mapping_file.exists \/ Failing(mapping_file))

\* nothing but the built-in table: its entities, each once, and no row of the file
OnlyDefaults ==
    /\ ~ret.value.raised
    /\ MappedEntities = {"revenue", "expenses", "employee_benefits", "net_income", "assets",
                         "liabilities", "equity", "cash_flow", "cash"}
    /\ Len(file_mappings) = Cardinality(MappedEntities)
    /\ \A i \in DOMAIN file_mappings :
          file_mappings[i].file_name \in {"Income Statement", "Balance Sheet", "Cash Flow"}
    /\ StatementTypes = {"income_statement", "balance_sheet", "cash_flow"}

\* C26: without a mapping artifact, or with one that fails to load, initialization
\* does not fail and FileMapping is the built-in table alone, 9 entities on 3
\* statement types
C26_DefaultTable ==
    DefaultsNeeded => /\ OnlyDefaults
                      /\ Cardinality(MappedEntities) = 9
                      /\ Cardinality(StatementTypes) = 3

\* C26 as stated: the built-in table has 11 entities
C26_AsStated ==
    DefaultsNeeded => /\ OnlyDefaults
                      /\ Cardinality(MappedEntities) = 11
                      /\ Cardinality(StatementTypes) = 3

\* a file whose first row was read, with a metric the built-in table lacks,
\* before the second row failed
C26_Witness ==
    /\ Done("_initialize_training_data")
    /\ mapping_file.exists /\ mapping_file.fails_at = 2 /\ Len(mapping_file.rows) = 2
    /\ mapping_file.rows[1].metric = "Grants"
    /\ "grants" \notin MappedEntities
    /\ Len(file_mappings) = 9

\* a file read to its end replaces nothing
C26_LoadedReached ==
    /\ Done("_initialize_training_data")
    /\ mapping_file.exists /\ ~Failing(mapping_file)
    /\ MappedEntities = {"grants", "cash"}

(***************************************************************************)
(* C27: the columns a comparison compares                                  *)
(***************************************************************************)
\* the year a fiscal year starts in
StartYear(y) == ToInt(Take(y, 4))

\* the earliest of a set of fiscal years
Earliest(ys) == CHOOSE y \in ys : \A z \in ys : StartYear(y) <= StartYear(z)

\* sql compares, as Year_1 and Year_2, a column of fiscal year y1 and one of y2
Compares(sql, columns, y1, y2) ==
    \E i \in SetOf(columns) :
        \E k1 \in PeriodColumns(columns, y1), k2 \in PeriodColumns(columns, y2) :
            HasComparisonForm(sql, QuoteColumn(i), QuoteColumn(columns[k1]),
                              QuoteColumn(columns[k2]))

\* C27: a comparison query compares the columns of the two earliest requested
\* fiscal years, the earlier one as Year_1
C27_Chronological ==
    ComparisonAsked =>
        LET ys == SetOf(intent.years)
            y1 == Earliest(ys)
            y2 == Earliest(ys \ {y1})
        IN  Compares(ret.value.sql, UsedColumns, y1, y2)

\* a comparison that does compare the two requested years, earlier first
C27_OrderedReached ==
    /\ ComparisonAsked
    /\ intent.years = <<"2025-26", "2024-25">>
    /\ Compares(ret.value.sql, UsedColumns, "2024-25", "2025-26")

(***************************************************************************)
(* C28: periods that are not spelled as a fiscal year                      *)
(***************************************************************************)
AllDigits(w) == \A i \in 1..Len(w) : IsDigit(Char(w, i))

\* YYYY-ZZ or YYYY/ZZ with ZZ other than the year after YYYY, or YYYY-YYYY
Misspelled(w) ==
    /\ Len(w) \in {7, 9}
    /\ AllDigits(SubSeq(w, 1, 4)) /\ AllDigits(SubSeq(w, 6, Len(w)))
    /\ \/ Len(w) = 9 /\ Char(w, 5) = "-"
       \/ /\ Len(w) = 7 /\ Char(w, 5) \in {"-", "/"}
          /\ ToInt(SubSeq(w, 6, 7)) # (ToInt(SubSeq(w, 1, 4)) + 1) % 100

\* the text without its misspelled periods
WellSpelled(text) ==
    Join(SelectSeq(Split(text, " "), LAMBDA w : ~Misspelled(w)), " ")

\* C28: the fiscal years returned for a text are those returned for the text
\* without its misspelled periods
C28_DenotedOnly ==
    Done("_extract_fiscal_year") =>
        SetOf(ret.value) = _extract_fiscal_year(WellSpelled(query))

\* the long form gives the fiscal years that start in each of its two years
C28_LongFormReached ==
    /\ Done("_extract_fiscal_year")
    /\ query = "2024-2025"
    /\ SetOf(ret.value) = {"2024-25", "2025-26"}

(***************************************************************************)
(* C29: the error responses of ask_question                                *)
(***************************************************************************)
Called(stage) == \E i \in DOMAIN trace : trace[i] = stage

\* the query was executed and nothing was formatted: no rows came back
NothingToFormat ==
    /\ Done("ask_question")
    /\ Called("execute_sql")
    /\ ~Called("format_financial_data")

\* C29: no response of ask_question has status code 404; an execution without
\* rows is answered with the sql_error message and code 500; an error response
\* other than the validation error has at most 3 suggestions
C29_NoNotFound ==
    Done("ask_question") =>
        /\ ret.value.code # 404
        /\ ret.value.status = "error" => ret.value.error # handle_error("data_not_found")
        /\ NothingToFormat =>
              /\ ret.value.code = 500
              /\ ret.value.error = handle_error("sql_error")
        /\ (ret.value.status = "error" /\ ret.value.code # 400) =>
              /\ "suggestions" \in DOMAIN ret.value
              /\ Len(ret.value.suggestions) <= 3

\* a query against loaded tables that brought no rows
C29_Witness ==
    /\ NothingToFormat
    /\ dataframes # <<>>
    /\ Contains(" FROM ", ret.value.sql)
    /\ ret.value.code = 500
    /\ Len(ret.value.suggestions) = 3

(***************************************************************************)
(* C30: the lazy load under concurrent requests                            *)
(***************************************************************************)
\* the table names of a complete load of the data directory
CompleteCatalog == TableNames(LoadSheets(data_dir.sheets, <<>>))

\* what holds of a request once it has read the catalog: it read every table of
\* a complete load, and if it ever found the mapper not loaded it called
\* load_excel_files and, given a directory, went through all of its sheets
ReadAfterLoad(t) ==
    t.reads > 0 =>
        /\ t.tables = CompleteCatalog
        /\ (\E k \in DOMAIN t.found : ~t.found[k]) =>
              /\ t.load_calls > 0
              /\ data_dir.exists => t.next > Len(data_dir.sheets)

\* C30: under every interleaving of ask_question and health_check requests the
\* loaded flag never goes back from TRUE to FALSE, a request that found it FALSE
\* loads before it reads the catalog, and every catalog read is complete
C30_LazyLoad ==
    /\ [](\A i \in DOMAIN threads : ReadAfterLoad(threads[i]))
    /\ [][loaded => loaded']_vars

\* one request found the mapper loaded by the other, while the other was still
\* to read, and read the complete catalog of three tables
C30_Witness ==
    /\ \E i, j \in DOMAIN threads :
          /\ i # j
          /\ threads[i].found = <<TRUE, TRUE>> /\ threads[i].reads > 0
          /\ threads[i].tables = CompleteCatalog
          /\ threads[j].load_calls = 1 /\ threads[j].reads = 0
    /\ Len(CompleteCatalog) = 3

\* both requests were loading at the same time
C30_BothLoadingReached ==
    /\ Len(threads) = 2
    /\ \A i \in DOMAIN threads : threads[i].pc = "load" /\ threads[i].next = 2
====
